---- MODULE Spec2Model ----
(***************************************************************************)
(* Table-reservation engine: the resource lock manager (acquireLock,       *)
(* releaseLock, isLocked, acquireMultipleLocks, withLock), the versioned   *)
(* record stores, the reservation / walk-in orchestrator and the           *)
(* availability queries.                                                   *)
(*                                                                         *)
(* Time is an integer number of minutes.  The host is a single-threaded    *)
(* event loop: a synchronous function is one atomic action, an async       *)
(* function is cut at each of its awaits.                                  *)
(* SpecMulti alone follows a synchronous function, acquireMultipleLocks,    *)
(* one acquireLock at a time, which adds interleavings to the program's.   *)
(***************************************************************************)
EXTENDS Integers, Sequences, FiniteSets, TLC

\* ------------------------------------------------------------------------
\* Bounds of the model
\* ------------------------------------------------------------------------
\* MaxClock: minutes the lock-manager clock runs.  MaxResources: longest
\* resource list given to acquireMultipleLocks.  MaxVersion: largest
\* expectedVersion a client presents.  NumWaiters: waiters on shift.
MaxClock == 2
MaxResources == 2
MaxVersion == 1
NumWaiters == 2

\* ------------------------------------------------------------------------
\* Program constants
\* ------------------------------------------------------------------------
DEFAULT_LOCK_TIMEOUT_MINUTES == 2
DEFAULT_DURATION_MINUTES == 90
SLOT_DURATION_MINUTES == 30

VARIABLES locks, now, wl, grants, ret,
          tables, waiters, customers, reservations, timers, cr, wi, search,
          multi

lockVars == <<locks, wl, grants>>
storeVars == <<tables, waiters, customers, reservations, timers>>
callVars == <<cr, wi, search, multi>>
vars == <<locks, now, wl, grants, ret,
          tables, waiters, customers, reservations, timers, cr, wi, search,
          multi>>

\* ------------------------------------------------------------------------
\* Lock manager: keys, owners, the lock map
\* ------------------------------------------------------------------------
\* Named owner tokens used by direct callers of acquireLock / releaseLock.
Owners == {<<"owner", 1>>, <<"owner", 2>>}

\* The private owner token withLock draws for its n-th call: no two calls
\* and no named owner share a token.
uuidv4(n) == <<"uuid", n>>

\* The resources the lock-manager clients contend for.
LockResources ==
  {[type |-> "table", id |-> 1], [type |-> "table", id |-> 2],
   [type |-> "reservation", id |-> 1]}

\* getLockKey: the composite key `${resourceType}:${resourceId}`.  The key is
\* kept as the pair it is built from; the pair determines the string and the
\* string determines the pair (no resource type contains a colon).
getLockKey(resourceType, resourceId) == [type |-> resourceType, id |-> resourceId]

\* Position of a resource type in the string order of the composite keys.
TypeRank(type) ==
  CASE type = "reservation" -> 1
    [] type = "table" -> 2
    [] type = "timeslot" -> 3

\* `${a.type}:${a.id}`.localeCompare(`${b.type}:${b.id}`) < 0
KeyLess(a, b) ==
  \/ TypeRank(a.type) < TypeRank(b.type)
  \/ a.type = b.type /\ a.id < b.id

\* Map.set and Map.delete on the lock map (a function whose domain is the
\* set of keys present).
MapSet(L, k, v) == [x \in (DOMAIN L) \cup {k} |-> IF x = k THEN v ELSE L[x]]

MapDelete(L, k) == [x \in (DOMAIN L) \ {k} |-> L[x]]

EmptyMap == [x \in {} |-> x]

\* The message of a failed acquireLock (its "until <expiry>" suffix is dropped).
LockedError == "Resource is locked by another process"

addMinutes(t, minutes) == t + minutes

\* acquireLock, mutated: an entry that expires exactly now still blocks.
acquireLock_ExpiryInclusive(L, t, key, lockOwner, timeoutMinutes) ==
  IF key \in DOMAIN L /\ L[key].expiresAt >= t /\ L[key].lockedBy # lockOwner
  THEN [success |-> FALSE, locks |-> L, error |-> LockedError]
  ELSE [success |-> TRUE,
        locks |-> MapSet(L, key, [resourceType |-> key.type, resourceId |-> key.id,
                                  lockedBy |-> lockOwner, lockedAt |-> t,
                                  expiresAt |-> addMinutes(t, timeoutMinutes)]),
        error |-> ""]

\* acquireLock, mutated: the existing entry is not consulted before the write.
acquireLock_NoCheck(L, t, key, lockOwner, timeoutMinutes) ==
  [success |-> TRUE,
   locks |-> MapSet(L, key, [resourceType |-> key.type, resourceId |-> key.id,
                             lockedBy |-> lockOwner, lockedAt |-> t,
                             expiresAt |-> addMinutes(t, timeoutMinutes)]),
   error |-> ""]

\* acquireLock, mutated: a valid entry blocks only its own owner.
acquireLock_OwnerSwapped(L, t, key, lockOwner, timeoutMinutes) ==
  IF key \in DOMAIN L /\ L[key].expiresAt > t /\ L[key].lockedBy = lockOwner
  THEN [success |-> FALSE, locks |-> L, error |-> LockedError]
  ELSE [success |-> TRUE,
        locks |-> MapSet(L, key, [resourceType |-> key.type, resourceId |-> key.id,
                                  lockedBy |-> lockOwner, lockedAt |-> t,
                                  expiresAt |-> addMinutes(t, timeoutMinutes)]),
        error |-> ""]

\* acquireLock(resourceType, resourceId, lockOwner, timeoutMinutes) at time t
\* on lock map L: fails when a valid entry of another owner exists, else
\* writes a new entry that expires timeoutMinutes from now.
acquireLock(L, t, key, lockOwner, timeoutMinutes) ==
  IF key \in DOMAIN L /\ L[key].expiresAt > t /\ L[key].lockedBy # lockOwner
  THEN [success |-> FALSE, locks |-> L, error |-> LockedError]
  ELSE [success |-> TRUE,
        locks |-> MapSet(L, key, [resourceType |-> key.type, resourceId |-> key.id,
                                  lockedBy |-> lockOwner, lockedAt |-> t,
                                  expiresAt |-> addMinutes(t, timeoutMinutes)]),
        error |-> ""]

\* releaseLock, mutated: the owner's release is acknowledged and the entry
\* stays.
releaseLock_KeepsEntry(L, key, lockOwner) ==
  IF key \notin DOMAIN L THEN [ok |-> TRUE, locks |-> L]
  ELSE IF L[key].lockedBy # lockOwner THEN [ok |-> FALSE, locks |-> L]
  ELSE [ok |-> TRUE, locks |-> L]

\* releaseLock, mutated: another owner's entry is deleted although the
\* release is refused.
releaseLock_ForeignDeleted(L, key, lockOwner) ==
  IF key \notin DOMAIN L THEN [ok |-> TRUE, locks |-> L]
  ELSE IF L[key].lockedBy # lockOwner THEN [ok |-> FALSE, locks |-> MapDelete(L, key)]
  ELSE [ok |-> TRUE, locks |-> MapDelete(L, key)]

\* releaseLock, mutated: the entry is deleted whoever owns it.
releaseLock_NoOwnerCheck(L, key, lockOwner) ==
  IF key \notin DOMAIN L THEN [ok |-> TRUE, locks |-> L]
  ELSE [ok |-> TRUE, locks |-> MapDelete(L, key)]

\* releaseLock: true when no entry exists, false when another owner's entry
\* exists, else deletes the entry and returns true.
releaseLock(L, key, lockOwner) ==
  IF key \notin DOMAIN L THEN [ok |-> TRUE, locks |-> L]
  ELSE IF L[key].lockedBy # lockOwner THEN [ok |-> FALSE, locks |-> L]
  ELSE [ok |-> TRUE, locks |-> MapDelete(L, key)]

\* isLocked, mutated: an entry counts as locked up to and including its
\* expiry instant.
isLocked_ExpiryInclusive(L, t, key) ==
  IF key \notin DOMAIN L THEN [locked |-> FALSE, locks |-> L]
  ELSE IF L[key].expiresAt < t THEN [locked |-> FALSE, locks |-> MapDelete(L, key)]
  ELSE [locked |-> TRUE, locks |-> L]

\* isLocked: evicts an expired entry before answering.
isLocked(L, t, key) ==
  IF key \notin DOMAIN L THEN [locked |-> FALSE, locks |-> L]
  ELSE IF L[key].expiresAt <= t THEN [locked |-> FALSE, locks |-> MapDelete(L, key)]
  ELSE [locked |-> TRUE, locks |-> L]

\* The entry locks.get(key) finds, or NoEntry.
NoEntry == [lockedBy |-> <<"none", 0>>, lockedAt |-> -1, expiresAt |-> -1]

LockEntry(L, key) ==
  IF key \in DOMAIN L
  THEN [lockedBy |-> L[key].lockedBy, lockedAt |-> L[key].lockedAt,
        expiresAt |-> L[key].expiresAt]
  ELSE NoEntry

Range(s) == {s[i] : i \in 1..Len(s)}

\* ------------------------------------------------------------------------
\* acquireMultipleLocks
\* ------------------------------------------------------------------------
RECURSIVE SortedInsert(_, _)
SortedInsert(s, x) ==
  IF s = <<>> THEN <<x>>
  ELSE IF KeyLess(x, Head(s)) THEN <<x>> \o s
  ELSE <<Head(s)>> \o SortedInsert(Tail(s), x)

RECURSIVE SortFrom(_, _)
SortFrom(done, rest) ==
  IF rest = <<>> THEN done ELSE SortFrom(SortedInsert(done, Head(rest)), Tail(rest))

\* The sort, mutated: the request order is reversed and not sorted.
SortResources_Reversed(resources) ==
  [i \in 1..Len(resources) |-> resources[Len(resources) + 1 - i]]

\* The sort, mutated: the request order is kept.
SortResources_RequestOrder(resources) == resources

\* [...resources].sort(by `${type}:${id}`), a stable sort.
SortResources(resources) == SortFrom(<<>>, resources)

RECURSIVE ReleaseAll(_, _, _)
\* The rollback, mutated: nothing is released.
Rollback_Nothing(L, acquiredLocks, lockOwner) == L

\* The rollback loop: releaseLock on every lock of acquiredLocks.
ReleaseAll(L, acquiredLocks, lockOwner) ==
  IF acquiredLocks = <<>> THEN L
  ELSE ReleaseAll(releaseLock(L, Head(acquiredLocks), lockOwner).locks,
                  Tail(acquiredLocks), lockOwner)

Rollback(L, acquiredLocks, lockOwner) == ReleaseAll(L, acquiredLocks, lockOwner)

RECURSIVE AcquireLoop(_, _, _, _, _, _)
\* The for loop of acquireMultipleLocks over the sorted resources.
AcquireLoop(L, t, sortedResources, acquiredLocks, lockOwner, timeoutMinutes) ==
  IF sortedResources = <<>>
  THEN [success |-> TRUE, locks |-> L, acquiredLocks |-> acquiredLocks,
        failedOn |-> <<>>]
  ELSE LET resource == Head(sortedResources)
           result == acquireLock(L, t, resource, lockOwner, timeoutMinutes)
       IN IF ~result.success
          THEN [success |-> FALSE,
                locks |-> Rollback(L, acquiredLocks, lockOwner),
                acquiredLocks |-> acquiredLocks,
                failedOn |-> <<resource>>]
          ELSE AcquireLoop(result.locks, t, Tail(sortedResources),
                           Append(acquiredLocks, resource), lockOwner, timeoutMinutes)

acquireMultipleLocks(L, t, resources, lockOwner, timeoutMinutes) ==
  AcquireLoop(L, t, SortResources(resources), <<>>, lockOwner, timeoutMinutes)

\* ------------------------------------------------------------------------
\* withLock
\* ------------------------------------------------------------------------
\* What the body fn does: returns a value, throws an Error with a message,
\* or throws a value that is no Error.
BodyOutcomes ==
  {[kind |-> "return", value |-> "success"],
   [kind |-> "throw", value |-> "Test error"],
   [kind |-> "throwOther", value |-> ""]}

NoOutcome == [kind |-> "none", value |-> ""]

\* withLockResult, mutated: a body that throws is reported as a success.
withLockResult_ThrowSucceeds(outcome) ==
  IF outcome.kind = "return" THEN [success |-> TRUE, result |-> outcome.value, error |-> ""]
  ELSE [success |-> TRUE, result |-> "", error |-> ""]

\* The try/catch of withLock: the result it builds from the body's outcome.
withLockResult(outcome) ==
  IF outcome.kind = "return" THEN [success |-> TRUE, result |-> outcome.value, error |-> ""]
  ELSE IF outcome.kind = "throw" THEN [success |-> FALSE, result |-> "", error |-> outcome.value]
  ELSE [success |-> FALSE, result |-> "", error |-> "Unknown error"]

\* The exit, mutated: the lock is released on the normal path only.
withLockExit_NoFinally(L, key, lockOwner, outcome) ==
  [locks |-> IF outcome.kind = "return" THEN releaseLock(L, key, lockOwner).locks ELSE L,
   result |-> withLockResult(outcome)]

\* try { return ... } catch { return ... } finally { releaseLock(...) }
withLockExit(L, key, lockOwner, outcome) ==
  [locks |-> releaseLock(L, key, lockOwner).locks, result |-> withLockResult(outcome)]

\* ------------------------------------------------------------------------
\* What each owner was granted and has not released (history)
\* ------------------------------------------------------------------------
\* grants holds the grants that are still valid: [key, owner, expiresAt] for
\* every successful acquisition the owner has not released and whose expiry
\* instant lies ahead.
Grant(G, key, owner, expiresAt) ==
  {g \in G : ~(g.key = key /\ g.owner = owner)}
    \cup {[key |-> key, owner |-> owner, expiresAt |-> expiresAt]}

StillValid(G, t) == {g \in G : g.expiresAt > t}

Ungrant(G, keys, owner) == {g \in G : ~(g.key \in keys /\ g.owner = owner)}

\* ------------------------------------------------------------------------
\* Record stores (tables, waiters, customers, reservations)
\* ------------------------------------------------------------------------
ReservationStatuses ==
  {"PENDING", "CONFIRMED", "SEATED", "COMPLETED", "CANCELLED", "NO_SHOW"}

TableStatuses == {"AVAILABLE", "RESERVED", "OCCUPIED", "CLEANING", "OUT_OF_SERVICE"}

\* Capacities of the sample tables, in creation order.
SampleCapacities == <<2, 4>>

TableIds == 1..Len(SampleCapacities)
WaiterIds == 1..NumWaiters

\* A field that is undefined in the program.
Undefined == 0
UndefinedPhone == "undefined"

\* The four stores as one value.
Stores == [tables |-> tables, waiters |-> waiters,
           customers |-> customers, reservations |-> reservations]

\* Ids of a store in insertion order (Map iteration order).
getAll(store) == [i \in 1..Len(store) |-> i]

getById(store, id) == id \in 1..Len(store)

findByCapacity(T, minCapacity) ==
  SelectSeq(getAll(T), LAMBDA t : T[t].capacity >= minCapacity)

findAvailableForPartySize(T, partySize) ==
  SelectSeq(getAll(T),
            LAMBDA t : T[t].status = "AVAILABLE" /\ T[t].capacity >= partySize)

findByPhone(C, phone) ==
  LET hits == SelectSeq(getAll(C), LAMBDA c : C[c].phone = phone)
  IN IF hits = <<>> THEN Undefined ELSE hits[1]

\* LeastTables, mutated: the first waiter of the status is taken whatever
\* its load.
LeastTables_First(W, ids) == ids[1]

\* Array.reduce keeping the earlier waiter on ties.
LeastTables(W, ids) ==
  LET F[i \in 1..Len(ids)] ==
        IF i = 1 THEN ids[1]
        ELSE IF Len(W[ids[i]].assignedTables) < Len(W[F[i - 1]].assignedTables)
             THEN ids[i] ELSE F[i - 1]
  IN F[Len(ids)]

findWithLeastTables(W) ==
  LET available == SelectSeq(getAll(W), LAMBDA w : W[w].status = "AVAILABLE")
      busy == SelectSeq(getAll(W), LAMBDA w : W[w].status = "BUSY")
  IN IF available = <<>>
     THEN IF busy = <<>> THEN Undefined ELSE LeastTables(W, busy)
     ELSE LeastTables(W, available)

assignTable(W, waiterId, tableId) ==
  IF ~getById(W, waiterId) THEN W
  ELSE IF tableId \in Range(W[waiterId].assignedTables) THEN W
  ELSE [W EXCEPT ![waiterId] =
          [status |-> "BUSY",
           assignedTables |-> Append(W[waiterId].assignedTables, tableId)]]

\* updateWithVersion, mutated: the stored version is not compared.
updateWithVersion_NoVersionCheck(R, id, newStatus, expectedVersion) ==
  IF ~getById(R, id) THEN [ok |-> FALSE, reservations |-> R]
  ELSE [ok |-> TRUE,
        reservations |-> [R EXCEPT ![id].status = newStatus,
                                   ![id].version = R[id].version + 1]]

\* updateWithVersion, mutated: an accepted update keeps the stored version.
updateWithVersion_NoIncrement(R, id, newStatus, expectedVersion) ==
  IF ~getById(R, id) THEN [ok |-> FALSE, reservations |-> R]
  ELSE IF R[id].version # expectedVersion THEN [ok |-> FALSE, reservations |-> R]
  ELSE [ok |-> TRUE, reservations |-> [R EXCEPT ![id].status = newStatus]]

\* updateWithVersion, mutated: a cancelled reservation is removed from the
\* store.
updateWithVersion_DeleteCancelled(R, id, newStatus, expectedVersion) ==
  IF ~getById(R, id) THEN [ok |-> FALSE, reservations |-> R]
  ELSE IF R[id].version # expectedVersion THEN [ok |-> FALSE, reservations |-> R]
  ELSE IF newStatus = "CANCELLED"
  THEN [ok |-> TRUE,
        reservations |-> [i \in 1..(Len(R) - 1) |->
                            IF i < id THEN R[i] ELSE R[i + 1]]]
  ELSE [ok |-> TRUE,
        reservations |-> [R EXCEPT ![id].status = newStatus,
                                   ![id].version = R[id].version + 1]]

\* Optimistic update of a reservation's status; ok is FALSE for null.
updateWithVersion(R, id, newStatus, expectedVersion) ==
  IF ~getById(R, id) THEN [ok |-> FALSE, reservations |-> R]
  ELSE IF R[id].version # expectedVersion THEN [ok |-> FALSE, reservations |-> R]
  ELSE [ok |-> TRUE,
        reservations |-> [R EXCEPT ![id].status = newStatus,
                                   ![id].version = R[id].version + 1]]

findByTimeRange_SameStartOnly(R, startTime, endTime) ==
  SelectSeq(getAll(R), LAMBDA r : R[r].startTime = startTime)

\* findByTimeRange, mutated: intervals that touch are reported too.
findByTimeRange_ClosedIntervals(R, startTime, endTime) ==
  SelectSeq(getAll(R),
            LAMBDA r : R[r].startTime <= endTime /\ R[r].endTime >= startTime)

findByTimeRange(R, startTime, endTime) ==
  SelectSeq(getAll(R),
            LAMBDA r : R[r].startTime < endTime /\ R[r].endTime > startTime)

InitStores ==
  /\ tables = [t \in TableIds |->
                 [capacity |-> SampleCapacities[t], status |-> "AVAILABLE"]]
  /\ waiters = [w \in WaiterIds |->
                  [status |-> "AVAILABLE", assignedTables |-> <<>>]]
  /\ customers = <<>>
  /\ reservations = <<>>
  /\ timers = [t \in TableIds |-> 0]

\* ------------------------------------------------------------------------
\* Date and time helpers
\* ------------------------------------------------------------------------
ValidTimezones == {"UTC", "America/New_York"}

isValidTimezone(timezone) == timezone \in ValidTimezones

\* A start-time string: the instant it denotes and the way it is written.
\* An unparsable string denotes no instant.
InvalidDate == -1

parseDateTime(startTime) == startTime.instant

calculateEndTime(startTime, durationMinutes) ==
  addMinutes(parseDateTime(startTime), durationMinutes)

isFutureDateTime(startTime, t) == parseDateTime(startTime) > t

\* doTimeRangesOverlap, mutated: only the first comparison is made.
doTimeRangesOverlap_OneSided(start1, end1, start2, end2) == start1 < end2

doTimeRangesOverlap(start1, end1, start2, end2) == start1 < end2 /\ start2 < end1

ActiveStatus(status) == status \notin {"CANCELLED", "COMPLETED", "NO_SHOW"}

\* ------------------------------------------------------------------------
\* Reservation service
\* ------------------------------------------------------------------------
\* Stable insertion of table x into a list sorted by capacity.
InsertByCapacity(T, s, x) ==
  LET before == SelectSeq(s, LAMBDA y : T[y].capacity <= T[x].capacity)
      after == SelectSeq(s, LAMBDA y : T[y].capacity > T[x].capacity)
  IN before \o <<x>> \o after

SortByCapacity(T, s) ==
  LET F[i \in 0..Len(s)] ==
        IF i = 0 THEN <<>> ELSE InsertByCapacity(T, F[i - 1], s[i])
  IN F[Len(s)]

findAvailableTables(S, startTime, endTime, partySize, excludeReservationId) ==
  LET T == S.tables
      R == S.reservations
      suitableTables == findByCapacity(T, partySize)
      activeTables ==
        SelectSeq(suitableTables, LAMBDA t : T[t].status # "OUT_OF_SERVICE")
      overlappingReservations ==
        SelectSeq(findByTimeRange(R, startTime, endTime),
                  LAMBDA r : /\ ActiveStatus(R[r].status)
                             /\ r # excludeReservationId)
      availableTables ==
        SelectSeq(activeTables,
                  LAMBDA t : \A i \in 1..Len(overlappingReservations) :
                                R[overlappingReservations[i]].tableId # t)
  IN SortByCapacity(T, availableTables)

\* validateCreateRequest, mutated: the start is not compared with the clock.
validateCreateRequest_NoFutureCheck(request, t) ==
  IF request.partySize < 1 THEN "INVALID_PARTY_SIZE"
  ELSE IF request.partySize > 20 THEN "INVALID_PARTY_SIZE"
  ELSE IF request.customerName = "" THEN "INVALID_CUSTOMER_NAME"
  ELSE IF request.startTime.text = "" THEN "INVALID_TIME"
  ELSE IF parseDateTime(request.startTime) = InvalidDate THEN "INVALID_TIME"
  ELSE IF request.timezone # "" /\ ~isValidTimezone(request.timezone)
       THEN "INVALID_TIMEZONE"
  ELSE ""

\* The first failed check of validateCreateRequest, "" when none fails.
validateCreateRequest(request, t) ==
  IF request.partySize < 1 THEN "INVALID_PARTY_SIZE"
  ELSE IF request.partySize > 20 THEN "INVALID_PARTY_SIZE"
  ELSE IF request.customerName = "" THEN "INVALID_CUSTOMER_NAME"
  ELSE IF request.startTime.text = "" THEN "INVALID_TIME"
  ELSE IF parseDateTime(request.startTime) = InvalidDate THEN "INVALID_TIME"
  ELSE IF request.timezone # "" /\ ~isValidTimezone(request.timezone)
       THEN "INVALID_TIMEZONE"
  ELSE IF ~isFutureDateTime(request.startTime, t) THEN "PAST_TIME"
  ELSE ""

Duration(request) ==
  IF request.durationMinutes = Undefined THEN DEFAULT_DURATION_MINUTES
  ELSE request.durationMinutes

\* SelectTable, mutated: automatic selection takes the last eligible table.
SelectTable_LastEligible(S, request, endTime) ==
  LET availableTables ==
        findAvailableTables(S, parseDateTime(request.startTime), endTime,
                            request.partySize, Undefined)
  IN IF /\ request.preferredTableId # Undefined
        /\ request.preferredTableId \in Range(availableTables)
     THEN request.preferredTableId
     ELSE IF availableTables = <<>> THEN Undefined
     ELSE availableTables[Len(availableTables)]

\* SelectTable, mutated: a preferred table that exists is taken whether or
\* not it is eligible.
SelectTable_PreferredRegardless(S, request, endTime) ==
  LET availableTables ==
        findAvailableTables(S, parseDateTime(request.startTime), endTime,
                            request.partySize, Undefined)
  IN IF /\ request.preferredTableId # Undefined
        /\ getById(S.tables, request.preferredTableId)
     THEN request.preferredTableId
     ELSE IF availableTables = <<>> THEN Undefined ELSE availableTables[1]

\* The table the critical section selects; Undefined when none is eligible.
SelectTable(S, request, endTime) ==
  LET availableTables ==
        findAvailableTables(S, parseDateTime(request.startTime), endTime,
                            request.partySize, Undefined)
  IN IF /\ request.preferredTableId # Undefined
        /\ request.preferredTableId \in Range(availableTables)
     THEN request.preferredTableId
     ELSE IF availableTables = <<>> THEN Undefined ELSE availableTables[1]

FindOrCreateCustomer(C, phone) ==
  LET found == findByPhone(C, IF phone = UndefinedPhone THEN "" ELSE phone)
  IN IF found # Undefined THEN [customers |-> C, id |-> found]
     ELSE [customers |-> Append(C, [phone |-> phone]), id |-> Len(C) + 1]

AssignWaiter(W, tableId) ==
  LET waiter == findWithLeastTables(W)
  IN [waiters |-> IF waiter # Undefined THEN assignTable(W, waiter, tableId) ELSE W,
      id |-> waiter]

\* createReservationBody, mutated: the customer is found or created before
\* the tables are looked at.
createReservationBody_CustomerFirst(S, request) ==
  LET endTime == calculateEndTime(request.startTime, Duration(request))
      selectedTable == SelectTable(S, request, endTime)
      customer == FindOrCreateCustomer(S.customers, request.customerPhone)
      waiter == AssignWaiter(S.waiters, selectedTable)
      reservation ==
        [customerId |-> customer.id, tableId |-> selectedTable,
         waiterId |-> waiter.id,
         startTime |-> parseDateTime(request.startTime), endTime |-> endTime,
         status |-> "CONFIRMED", isWalkIn |-> FALSE, version |-> 1]
  IN IF /\ request.preferredTableId # Undefined
        /\ ~getById(S.tables, request.preferredTableId)
     THEN [outcome |-> [kind |-> "throw", value |-> "TABLE_NOT_FOUND"],
           stores |-> [S EXCEPT !.customers = customer.customers]]
     ELSE IF selectedTable = Undefined
     THEN [outcome |-> [kind |-> "throw", value |-> "NO_AVAILABILITY"],
           stores |-> [S EXCEPT !.customers = customer.customers]]
     ELSE [outcome |-> [kind |-> "return",
                        value |-> Len(S.reservations) + 1],
           stores |->
             [tables |-> [S.tables EXCEPT ![selectedTable].status = "RESERVED"],
              waiters |-> waiter.waiters,
              customers |-> customer.customers,
              reservations |-> Append(S.reservations, reservation)]]

\* The body createReservation runs under the timeslot lock: the outcome of
\* the body and the stores it leaves.
createReservationBody(S, request) ==
  LET endTime == calculateEndTime(request.startTime, Duration(request))
      selectedTable == SelectTable(S, request, endTime)
      customer == FindOrCreateCustomer(S.customers, request.customerPhone)
      waiter == AssignWaiter(S.waiters, selectedTable)
      reservation ==
        [customerId |-> customer.id, tableId |-> selectedTable,
         waiterId |-> waiter.id,
         startTime |-> parseDateTime(request.startTime), endTime |-> endTime,
         status |-> "CONFIRMED", isWalkIn |-> FALSE, version |-> 1]
  IN IF /\ request.preferredTableId # Undefined
        /\ ~getById(S.tables, request.preferredTableId)
     THEN [outcome |-> [kind |-> "throw", value |-> "TABLE_NOT_FOUND"],
           stores |-> S]
     ELSE IF selectedTable = Undefined
     THEN [outcome |-> [kind |-> "throw", value |-> "NO_AVAILABILITY"],
           stores |-> S]
     ELSE [outcome |-> [kind |-> "return",
                        value |-> Len(S.reservations) + 1],
           stores |->
             [tables |-> [S.tables EXCEPT ![selectedTable].status = "RESERVED"],
              waiters |-> waiter.waiters,
              customers |-> customer.customers,
              reservations |-> Append(S.reservations, reservation)]]

\* The .then callback of createReservation: withLock's result as a Result.
createReservationResult(result) ==
  IF result.success
  THEN [success |-> TRUE, data |-> result.result, code |-> ""]
  ELSE [success |-> FALSE, data |-> Undefined,
        code |-> IF result.error = "" THEN "UNKNOWN_ERROR" ELSE result.error]

\* isValidStatusTransition, mutated: every change of status is permitted.
isValidStatusTransition_AnyChange(from, to) == from # to

isValidStatusTransition(from, to) ==
  CASE from = "PENDING" -> to \in {"CONFIRMED", "CANCELLED"}
    [] from = "CONFIRMED" -> to \in {"SEATED", "CANCELLED", "NO_SHOW"}
    [] from = "SEATED" -> to \in {"COMPLETED"}
    [] OTHER -> FALSE

\* updateReservationStatus, mutated: a terminal status frees the table at
\* once and schedules nothing.
updateReservationStatus_ReleaseAtOnce(S, pending, id, newStatus, expectedVersion) ==
  LET R == S.reservations
      upd == updateWithVersion(R, id, newStatus, expectedVersion)
      tableId == R[id].tableId
      unchanged(code) == [code |-> code, stores |-> S, timers |-> pending]
  IN IF ~getById(R, id) THEN unchanged("RESERVATION_NOT_FOUND")
     ELSE IF ~isValidStatusTransition(R[id].status, newStatus)
     THEN unchanged("INVALID_STATUS_TRANSITION")
     ELSE IF ~upd.ok THEN unchanged("CONCURRENT_MODIFICATION")
     ELSE IF tableId = Undefined
     THEN [code |-> "", stores |-> [S EXCEPT !.reservations = upd.reservations],
           timers |-> pending]
     ELSE IF newStatus = "SEATED"
     THEN [code |-> "",
           stores |-> [S EXCEPT !.reservations = upd.reservations,
                                !.tables[tableId].status = "OCCUPIED"],
           timers |-> pending]
     ELSE IF newStatus \in {"COMPLETED", "CANCELLED", "NO_SHOW"}
     THEN [code |-> "",
           stores |-> [S EXCEPT !.reservations = upd.reservations,
                                !.tables[tableId].status = "AVAILABLE"],
           timers |-> pending]
     ELSE [code |-> "", stores |-> [S EXCEPT !.reservations = upd.reservations],
           timers |-> pending]

\* updateReservationStatus, mutated: ending a reservation takes its table
\* off the waiter it was assigned to.
updateReservationStatus_RelievesWaiter(S, pending, id, newStatus, expectedVersion) ==
  LET R == S.reservations
      upd == updateWithVersion(R, id, newStatus, expectedVersion)
      tableId == R[id].tableId
      waiterId == R[id].waiterId
      left == SelectSeq(S.waiters[waiterId].assignedTables, LAMBDA t : t # tableId)
      relieved ==
        IF waiterId = Undefined THEN S.waiters
        ELSE [S.waiters EXCEPT ![waiterId] =
                [status |-> IF left = <<>> THEN "AVAILABLE" ELSE "BUSY",
                 assignedTables |-> left]]
      unchanged(code) == [code |-> code, stores |-> S, timers |-> pending]
  IN IF ~getById(R, id) THEN unchanged("RESERVATION_NOT_FOUND")
     ELSE IF ~isValidStatusTransition(R[id].status, newStatus)
     THEN unchanged("INVALID_STATUS_TRANSITION")
     ELSE IF ~upd.ok THEN unchanged("CONCURRENT_MODIFICATION")
     ELSE IF tableId = Undefined
     THEN [code |-> "", stores |-> [S EXCEPT !.reservations = upd.reservations],
           timers |-> pending]
     ELSE IF newStatus = "SEATED"
     THEN [code |-> "",
           stores |-> [S EXCEPT !.reservations = upd.reservations,
                                !.tables[tableId].status = "OCCUPIED"],
           timers |-> pending]
     ELSE IF newStatus \in {"COMPLETED", "CANCELLED", "NO_SHOW"}
     THEN [code |-> "",
           stores |-> [S EXCEPT !.reservations = upd.reservations,
                                !.tables[tableId].status = "CLEANING",
                                !.waiters = relieved],
           timers |-> [pending EXCEPT ![tableId] = @ + 1]]
     ELSE [code |-> "", stores |-> [S EXCEPT !.reservations = upd.reservations],
           timers |-> pending]

\* updateReservationStatus: the result code ("" on success), the stores it
\* leaves and the release timers pending afterwards.
updateReservationStatus(S, pending, id, newStatus, expectedVersion) ==
  LET R == S.reservations
      upd == updateWithVersion(R, id, newStatus, expectedVersion)
      tableId == R[id].tableId
      unchanged(code) == [code |-> code, stores |-> S, timers |-> pending]
  IN IF ~getById(R, id) THEN unchanged("RESERVATION_NOT_FOUND")
     ELSE IF ~isValidStatusTransition(R[id].status, newStatus)
     THEN unchanged("INVALID_STATUS_TRANSITION")
     ELSE IF ~upd.ok THEN unchanged("CONCURRENT_MODIFICATION")
     ELSE IF tableId = Undefined
     THEN [code |-> "", stores |-> [S EXCEPT !.reservations = upd.reservations],
           timers |-> pending]
     ELSE IF newStatus = "SEATED"
     THEN [code |-> "",
           stores |-> [S EXCEPT !.reservations = upd.reservations,
                                !.tables[tableId].status = "OCCUPIED"],
           timers |-> pending]
     ELSE IF newStatus \in {"COMPLETED", "CANCELLED", "NO_SHOW"}
     THEN [code |-> "",
           stores |-> [S EXCEPT !.reservations = upd.reservations,
                                !.tables[tableId].status = "CLEANING"],
           timers |-> [pending EXCEPT ![tableId] = @ + 1]]
     ELSE [code |-> "", stores |-> [S EXCEPT !.reservations = upd.reservations],
           timers |-> pending]

cancelReservation(S, pending, id, expectedVersion) ==
  updateReservationStatus(S, pending, id, "CANCELLED", expectedVersion)

\* ------------------------------------------------------------------------
\* Walk-in service
\* ------------------------------------------------------------------------
\* The first failed check of validateWalkInRequest, "" when none fails.
validateWalkInRequest(request) ==
  IF request.customerName = "" THEN "INVALID_CUSTOMER_NAME"
  ELSE IF request.partySize < 1 THEN "INVALID_PARTY_SIZE"
  ELSE IF request.partySize > 20 THEN "INVALID_PARTY_SIZE"
  ELSE ""

\* The comparator of findBestTableForWalkIn, mutated: the larger table first.
WalkInBefore_LargestFirst(T, partySize, a, b) == T[a].capacity > T[b].capacity

\* The comparator of findBestTableForWalkIn: a sorts strictly before b.
WalkInBefore(T, partySize, a, b) ==
  LET aExact == IF T[a].capacity = partySize THEN 0 ELSE 1
      bExact == IF T[b].capacity = partySize THEN 0 ELSE 1
  IN IF aExact # bExact THEN aExact < bExact
     ELSE T[a].capacity < T[b].capacity

SortForWalkIn(T, partySize, s) ==
  LET F[i \in 0..Len(s)] ==
        IF i = 0 THEN <<>>
        ELSE SelectSeq(F[i - 1], LAMBDA y : ~WalkInBefore(T, partySize, s[i], y))
             \o <<s[i]>>
             \o SelectSeq(F[i - 1], LAMBDA y : WalkInBefore(T, partySize, s[i], y))
  IN F[Len(s)]

findBestTableForWalkIn(T, partySize) ==
  LET availableTables == findAvailableForPartySize(T, partySize)
  IN IF availableTables = <<>> THEN Undefined
     ELSE SortForWalkIn(T, partySize, availableTables)[1]

\* handleWalkInBody, mutated: the walk-in customer is created before the
\* tables are looked at.
handleWalkInBody_CustomerFirst(S, t, request) ==
  LET table == findBestTableForWalkIn(S.tables, request.partySize)
      withCustomer == Append(S.customers, [phone |-> UndefinedPhone])
      startTime == t
      endTime == addMinutes(startTime, DEFAULT_DURATION_MINUTES)
      waiter == AssignWaiter(S.waiters, table)
      reservation ==
        [customerId |-> Len(withCustomer), tableId |-> table,
         waiterId |-> waiter.id, startTime |-> startTime, endTime |-> endTime,
         status |-> "SEATED", isWalkIn |-> TRUE, version |-> 1]
  IN IF table = Undefined
     THEN [outcome |-> [kind |-> "throw", value |-> "NO_AVAILABLE_TABLES"],
           stores |-> [S EXCEPT !.customers = withCustomer]]
     ELSE [outcome |-> [kind |-> "return", value |-> Len(S.reservations) + 1],
           stores |->
             [tables |-> [S.tables EXCEPT ![table].status = "OCCUPIED"],
              waiters |-> waiter.waiters,
              customers |-> withCustomer,
              reservations |-> Append(S.reservations, reservation)]]

\* The body handleWalkIn runs under its lock, at instant t.
handleWalkInBody(S, t, request) ==
  LET table == findBestTableForWalkIn(S.tables, request.partySize)
      withCustomer == Append(S.customers, [phone |-> UndefinedPhone])
      startTime == t
      endTime == addMinutes(startTime, DEFAULT_DURATION_MINUTES)
      waiter == AssignWaiter(S.waiters, table)
      reservation ==
        [customerId |-> Len(withCustomer), tableId |-> table,
         waiterId |-> waiter.id, startTime |-> startTime, endTime |-> endTime,
         status |-> "SEATED", isWalkIn |-> TRUE, version |-> 1]
  IN IF table = Undefined
     THEN [outcome |-> [kind |-> "throw", value |-> "NO_AVAILABLE_TABLES"],
           stores |-> S]
     ELSE [outcome |-> [kind |-> "return", value |-> Len(S.reservations) + 1],
           stores |->
             [tables |-> [S.tables EXCEPT ![table].status = "OCCUPIED"],
              waiters |-> waiter.waiters,
              customers |-> withCustomer,
              reservations |-> Append(S.reservations, reservation)]]

\* The .then callback of handleWalkIn.
handleWalkInResult(result) ==
  IF result.success
  THEN [success |-> TRUE, data |-> result.result, code |-> ""]
  ELSE [success |-> FALSE, data |-> Undefined,
        code |-> IF result.error = "" THEN "SYSTEM_ERROR" ELSE result.error]

\* ------------------------------------------------------------------------
\* Reservation engine: requests, calls and steps
\* ------------------------------------------------------------------------
\* Start instants on the slot grid; two spellings of the same instant.
StartInstants == {SLOT_DURATION_MINUTES, 2 * SLOT_DURATION_MINUTES}

MissingTableId == Len(SampleCapacities) + 1

ValidCreateRequests ==
  [customerName : {"John Doe"}, partySize : {2, 4},
   startTime : [instant : StartInstants, text : {"Z"}],
   timezone : {""}, durationMinutes : {Undefined},
   preferredTableId : {Undefined}, customerPhone : {"555-1234"}]

BaseCreateRequest ==
  [customerName |-> "John Doe", partySize |-> 2,
   startTime |-> [instant |-> SLOT_DURATION_MINUTES, text |-> "Z"],
   timezone |-> "UTC", durationMinutes |-> 3 * SLOT_DURATION_MINUTES,
   preferredTableId |-> Undefined, customerPhone |-> "555-1234"]

CreateRequests ==
  ValidCreateRequests \cup
  {BaseCreateRequest,
   [BaseCreateRequest EXCEPT !.startTime.text = "+00:00"],
   [BaseCreateRequest EXCEPT !.preferredTableId = 2],
   [BaseCreateRequest EXCEPT !.preferredTableId = MissingTableId],
   [BaseCreateRequest EXCEPT !.partySize = 0],
   [BaseCreateRequest EXCEPT !.partySize = 21],
   [BaseCreateRequest EXCEPT !.customerName = ""],
   [BaseCreateRequest EXCEPT !.startTime = [instant |-> InvalidDate, text |-> ""]],
   [BaseCreateRequest EXCEPT !.startTime =
      [instant |-> InvalidDate, text |-> "not-a-date"]],
   [BaseCreateRequest EXCEPT !.timezone = "Invalid/Timezone"],
   [BaseCreateRequest EXCEPT !.startTime.instant = 0]}

WalkInRequests ==
  [customerName : {"Walk-in Guest"}, partySize : {2, 4}] \cup
  {[customerName |-> "", partySize |-> 2],
   [customerName |-> "Walk-in Guest", partySize |-> 0],
   [customerName |-> "Walk-in Guest", partySize |-> 21]}

CreateCalls == {1, 2}
WalkInCalls == {1}

\* The ids a client can name: those of the stored reservations and one
\* that is not stored.
KnownIds == 1..(Len(reservations) + 1)

NoResult == [success |-> FALSE, data |-> Undefined, code |-> ""]

NewServiceCall ==
  [pc |-> "new", startedDuring |-> {}, outcome |-> NoOutcome,
   lockResult |-> [success |-> FALSE, result |-> "", error |-> ""],
   result |-> NoResult]

NewCreateCall ==
  [startTime |-> [instant |-> InvalidDate, text |-> ""]] @@ NewServiceCall

NewWalkInCall == [startedAt |-> 0] @@ NewServiceCall

\* The forward search of getNextAvailableSlot: its position and locals.
NoSearch ==
  [pc |-> "idle", partySize |-> 0, fromTime |-> 0, durationMinutes |-> 0,
   checkTime |-> 0, probes |-> 0]

\* An acquireMultipleLocks call followed acquisition by acquisition: its
\* sorted resources, the locks it has acquired, how many of them its
\* rollback has released, and its result.
NewMultiCall ==
  [pc |-> "new", sortedResources |-> <<>>, acquiredLocks |-> <<>>,
   released |-> 0, success |-> FALSE]

InitCalls ==
  /\ cr = [c \in CreateCalls |-> NewCreateCall]
  /\ wi = [w \in WalkInCalls |-> NewWalkInCall]
  /\ search = NoSearch
  /\ multi = [o \in Owners |-> NewMultiCall]

\* Calls that have started and not yet delivered their Result.
InFlightCreates == {c \in CreateCalls : cr[c].pc = "await"}
InFlightWalkIns == {w \in WalkInCalls : wi[w].pc = "await"}
InFlight ==
  {<<"createReservation", c>> : c \in InFlightCreates}
    \cup {<<"handleWalkIn", w>> : w \in InFlightWalkIns}

createOwner(c) == <<"uuid:createReservation", c>>
walkInOwner(w) == <<"uuid:handleWalkIn", w>>

timeslotKey(startTime) ==
  getLockKey("timeslot", <<"timeslot", startTime.text, startTime.instant>>)

walkInKey(t) == getLockKey("table", <<"walkin", "", t>>)

SetStores(S) ==
  /\ tables' = S.tables
  /\ waiters' = S.waiters
  /\ customers' = S.customers
  /\ reservations' = S.reservations

\* ------------------------------------------------------------------------
\* Initial state
\* ------------------------------------------------------------------------
WithLockCalls == {1, 2}

NewCall ==
  [pc |-> "new", key |-> getLockKey("table", 0), owner |-> <<"none", 0>>,
   lockedAt |-> -1, expiresAt |-> -1, outcome |-> NoOutcome,
   result |-> [success |-> FALSE, result |-> "", error |-> ""]]

InitLocks ==
  /\ locks = EmptyMap
  /\ now = 0
  /\ wl = [p \in WithLockCalls |-> NewCall]
  /\ grants = {}
  /\ ret = [op |-> "init"]

Init == InitLocks /\ InitStores /\ InitCalls

\* ------------------------------------------------------------------------
\* Lock-manager clients
\* ------------------------------------------------------------------------
Timeouts == {DEFAULT_LOCK_TIMEOUT_MINUTES}

AcquireLockCall(key, owner, timeoutMinutes) ==
  LET r == acquireLock(locks, now, key, owner, timeoutMinutes)
  IN /\ locks' = r.locks
     /\ grants' = IF r.success
                  THEN Grant(grants, key, owner, addMinutes(now, timeoutMinutes))
                  ELSE grants
     /\ ret' = [op |-> "acquireLock", key |-> key, owner |-> owner,
                existing |-> LockEntry(locks, key), success |-> r.success]
     /\ UNCHANGED <<now, wl, storeVars, callVars>>

ReleaseLockCall(key, owner) ==
  LET r == releaseLock(locks, key, owner)
  IN /\ locks' = r.locks
     /\ grants' = Ungrant(grants, {key}, owner)
     /\ ret' = [op |-> "releaseLock", key |-> key, owner |-> owner,
                existing |-> LockEntry(locks, key), success |-> r.ok]
     /\ UNCHANGED <<now, wl, storeVars, callVars>>

IsLockedCall(key) ==
  LET r == isLocked(locks, now, key)
  IN /\ locks' = r.locks
     /\ ret' = [op |-> "isLocked", key |-> key, existing |-> LockEntry(locks, key),
                success |-> r.locked]
     /\ UNCHANGED <<now, wl, grants, storeVars, callVars>>

\* The requests: every ordering of up to MaxResources distinct resources.
ResourceLists ==
  {rs \in UNION {[1..n -> LockResources] : n \in 1..MaxResources} :
     \A i, j \in 1..Len(rs) : rs[i] = rs[j] => i = j}

AcquireMultipleLocksCall(resources, owner, timeoutMinutes) ==
  LET r == acquireMultipleLocks(locks, now, resources, owner, timeoutMinutes)
      RECURSIVE GrantAll(_, _)
      GrantAll(G, ks) ==
        IF ks = <<>> THEN G
        ELSE GrantAll(Grant(G, Head(ks), owner, addMinutes(now, timeoutMinutes)), Tail(ks))
  IN /\ locks' = r.locks
     /\ grants' = IF r.success THEN GrantAll(grants, r.acquiredLocks)
                  ELSE Ungrant(grants, Range(r.acquiredLocks), owner)
     /\ ret' = [op |-> "acquireMultipleLocks", resources |-> resources,
                owner |-> owner, success |-> r.success,
                acquiredLocks |-> r.acquiredLocks, failedOn |-> r.failedOn]
     /\ UNCHANGED <<now, wl, storeVars, callVars>>

\* ------------------------------------------------------------------------
\* withLock calls with a body that suspends
\* ------------------------------------------------------------------------
\* withLock up to its first await: draws the owner token, tries the lock and,
\* holding it, invokes the body.  A body that is no async function and throws
\* does so before the await, and withLock exits in the same step.
WithLockStart(p, key, syncThrow) ==
  /\ wl[p].pc = "new"
  /\ LET lockOwner == uuidv4(p)
         lockResult == acquireLock(locks, now, key, lockOwner, DEFAULT_LOCK_TIMEOUT_MINUTES)
         expiresAt == addMinutes(now, DEFAULT_LOCK_TIMEOUT_MINUTES)
         thrown == [kind |-> "throw", value |-> "Test error"]
         exit == withLockExit(lockResult.locks, key, lockOwner, thrown)
         base == [wl[p] EXCEPT !.key = key, !.owner = lockOwner]
     IN IF ~lockResult.success
           THEN /\ locks' = locks
                /\ grants' = grants
                /\ wl' = [wl EXCEPT ![p] =
                            [base EXCEPT !.pc = "done",
                                         !.result = [success |-> FALSE, result |-> "",
                                                     error |-> lockResult.error]]]
                /\ ret' = [op |-> "withLock", call |-> p, key |-> key, acquired |-> FALSE,
                           lockedAt |-> -1, expiresAt |-> -1, outcome |-> NoOutcome,
                           result |-> [success |-> FALSE, result |-> "",
                                       error |-> lockResult.error]]
           ELSE IF syncThrow
           THEN /\ locks' = exit.locks
                /\ grants' = grants
                /\ wl' = [wl EXCEPT ![p] =
                            [base EXCEPT !.pc = "done", !.lockedAt = now,
                                         !.expiresAt = expiresAt, !.outcome = thrown,
                                         !.result = exit.result]]
                /\ ret' = [op |-> "withLock", call |-> p, key |-> key, acquired |-> TRUE,
                           lockedAt |-> now, expiresAt |-> expiresAt, outcome |-> thrown,
                           result |-> exit.result]
           ELSE /\ locks' = lockResult.locks
                /\ grants' = Grant(grants, key, lockOwner, expiresAt)
                /\ wl' = [wl EXCEPT ![p] =
                            [base EXCEPT !.pc = "body", !.lockedAt = now,
                                         !.expiresAt = expiresAt]]
                /\ ret' = [op |-> "withLockStart", call |-> p, key |-> key]
  /\ UNCHANGED <<now, storeVars, callVars>>

\* The awaited body settles: it returns or throws.
WithLockBodySettle(p, outcome) ==
  /\ wl[p].pc = "body"
  /\ wl' = [wl EXCEPT ![p].pc = "settled", ![p].outcome = outcome]
  /\ ret' = [op |-> "bodySettle", call |-> p, key |-> wl[p].key]
  /\ UNCHANGED <<locks, now, grants, storeVars, callVars>>

\* withLock resumes after the await: return or catch, then finally.
WithLockResume(p) ==
  /\ wl[p].pc = "settled"
  /\ LET exit == withLockExit(locks, wl[p].key, wl[p].owner, wl[p].outcome)
     IN /\ locks' = exit.locks
        /\ grants' = Ungrant(grants, {wl[p].key}, wl[p].owner)
        /\ wl' = [wl EXCEPT ![p].pc = "done", ![p].result = exit.result]
        /\ ret' = [op |-> "withLock", call |-> p, key |-> wl[p].key, acquired |-> TRUE,
                   lockedAt |-> wl[p].lockedAt, expiresAt |-> wl[p].expiresAt,
                   outcome |-> wl[p].outcome, result |-> exit.result]
  /\ UNCHANGED <<now, storeVars, callVars>>

\* The wall clock advances by one minute.
TickMinute ==
  /\ now < MaxClock
  /\ now' = now + 1
  /\ grants' = StillValid(grants, now + 1)
  /\ ret' = [op |-> "tick"]
  /\ UNCHANGED <<locks, wl, storeVars, callVars>>

NextLock ==
  \/ \E key \in LockResources, owner \in Owners, t \in Timeouts :
       AcquireLockCall(key, owner, t)
  \/ \E key \in LockResources, owner \in Owners : ReleaseLockCall(key, owner)
  \/ \E key \in LockResources : IsLockedCall(key)
  \/ \E rs \in ResourceLists, owner \in Owners, t \in Timeouts :
       AcquireMultipleLocksCall(rs, owner, t)
  \/ TickMinute

SpecLock == Init /\ [][NextLock]_vars

NextWithLock ==
  \/ \E p \in WithLockCalls, key \in LockResources, syncThrow \in BOOLEAN :
       WithLockStart(p, key, syncThrow)
  \/ \E p \in WithLockCalls, outcome \in BodyOutcomes : WithLockBodySettle(p, outcome)
  \/ \E p \in WithLockCalls : WithLockResume(p)
  \/ \E key \in LockResources : IsLockedCall(key)
  \/ TickMinute

SpecWithLock == Init /\ [][NextWithLock]_vars

\* createReservation up to the await inside withLock: validation, the lock
\* acquisition and the whole critical section run without yielding.  A
\* request rejected by validation has its Result at once and leaves no call
\* behind.
CreateReservationStart(c, request) ==
  /\ cr[c].pc = "new"
  /\ \A d \in CreateCalls : d < c => cr[d].pc # "new"
  /\ LET code == validateCreateRequest(request, now)
         a == acquireLock(locks, now, timeslotKey(request.startTime), createOwner(c),
                          DEFAULT_LOCK_TIMEOUT_MINUTES)
         body == createReservationBody(Stores, request)
         call == [cr[c] EXCEPT !.startTime = request.startTime,
                               !.startedDuring = InFlightCreates]
     IN IF code # ""
        THEN /\ cr' = cr
             /\ ret' = [op |-> "createReservation",
                        result |-> [NoResult EXCEPT !.code = code]]
             /\ UNCHANGED <<locks, tables, waiters, customers, reservations>>
        ELSE IF ~a.success
        THEN /\ cr' = [cr EXCEPT ![c] =
                         [call EXCEPT !.pc = "await",
                                      !.lockResult.error = a.error]]
             /\ ret' = [op |-> "createReservationStart", call |-> c,
                        acquired |-> FALSE]
             /\ UNCHANGED <<locks, tables, waiters, customers, reservations>>
        ELSE /\ locks' = a.locks
             /\ SetStores(body.stores)
             /\ cr' = [cr EXCEPT ![c] =
                         [call EXCEPT !.pc = "await", !.outcome = body.outcome]]
             /\ ret' = [op |-> "createReservationStart", call |-> c,
                        acquired |-> TRUE]
  /\ UNCHANGED <<now, wl, grants, timers, wi, search, multi>>

\* The rest of the call: withLock resumes after the await (return or catch,
\* then finally) when it had acquired the lock, and the .then callback turns
\* its result into the caller's Result.  These promise jobs touch only the
\* call's own lock entry and result.  A call that fails leaves nothing
\* behind but its Result: its slot serves the next call.
CreateReservationSettle(c) ==
  /\ cr[c].pc = "await"
  /\ LET acquired == cr[c].outcome # NoOutcome
         exit == withLockExit(locks, timeslotKey(cr[c].startTime), createOwner(c),
                              cr[c].outcome)
         lockResult == IF acquired THEN exit.result ELSE cr[c].lockResult
         result == createReservationResult(lockResult)
     IN /\ locks' = IF acquired THEN exit.locks ELSE locks
        /\ cr' = IF result.success
                 THEN [cr EXCEPT ![c].pc = "done", ![c].lockResult = lockResult,
                                 ![c].result = result,
                                 ![c].startTime = NewCreateCall.startTime]
                 ELSE [d \in CreateCalls |->
                         IF d = c THEN NewCreateCall
                         ELSE [cr[d] EXCEPT !.startedDuring = @ \ {c}]]
        /\ ret' = [op |-> "createReservation", result |-> result]
  /\ UNCHANGED <<now, wl, grants, storeVars, wi, search, multi>>

\* updateReservationStatus and cancelReservation are synchronous and are
\* called from request handlers, which are tasks of the event loop: the
\* promise jobs of a started call have run before the next task begins.
UpdateReservationStatus(id, newStatus, expectedVersion) ==
  /\ InFlight = {}
  /\ LET r == updateReservationStatus(Stores, timers, id, newStatus, expectedVersion)
     IN /\ SetStores(r.stores)
        /\ timers' = r.timers
        /\ ret' = [op |-> "updateReservationStatus", code |-> r.code]
  /\ UNCHANGED <<locks, now, wl, grants, callVars>>

CancelReservation(id, expectedVersion) ==
  /\ InFlight = {}
  /\ LET r == cancelReservation(Stores, timers, id, expectedVersion)
     IN /\ SetStores(r.stores)
        /\ timers' = r.timers
        /\ ret' = [op |-> "updateReservationStatus", code |-> r.code]
  /\ UNCHANGED <<locks, now, wl, grants, callVars>>

\* A release timer set by updateReservationStatus fires.  Timer callbacks
\* are tasks of the event loop: none runs while a call is still resuming
\* from its promise jobs.
ReleaseTimerFires(tableId) ==
  /\ timers[tableId] > 0
  /\ InFlight = {}
  /\ timers' = [timers EXCEPT ![tableId] = @ - 1]
  /\ tables' = [tables EXCEPT ![tableId].status = "AVAILABLE"]
  /\ ret' = [op |-> "releaseTimer", tableId |-> tableId]
  /\ UNCHANGED <<locks, now, wl, grants, waiters, customers, reservations, callVars>>

\* handleWalkIn up to the await inside withLock.
HandleWalkInStart(w, request) ==
  /\ wi[w].pc = "new"
  /\ LET code == validateWalkInRequest(request)
         a == acquireLock(locks, now, walkInKey(now), walkInOwner(w),
                          DEFAULT_LOCK_TIMEOUT_MINUTES)
         body == handleWalkInBody(Stores, now, request)
         call == [wi[w] EXCEPT !.startedAt = now]
     IN IF code # ""
        THEN /\ wi' = wi
             /\ ret' = [op |-> "handleWalkIn",
                        result |-> [NoResult EXCEPT !.code = code]]
             /\ UNCHANGED <<locks, tables, waiters, customers, reservations>>
        ELSE IF ~a.success
        THEN /\ wi' = [wi EXCEPT ![w] =
                         [call EXCEPT !.pc = "await",
                                      !.lockResult.error = a.error]]
             /\ ret' = [op |-> "handleWalkInStart", call |-> w,
                        acquired |-> FALSE]
             /\ UNCHANGED <<locks, tables, waiters, customers, reservations>>
        ELSE /\ locks' = a.locks
             /\ SetStores(body.stores)
             /\ wi' = [wi EXCEPT ![w] =
                         [call EXCEPT !.pc = "await", !.outcome = body.outcome]]
             /\ ret' = [op |-> "handleWalkInStart", call |-> w,
                        acquired |-> TRUE]
  /\ UNCHANGED <<now, wl, grants, timers, cr, search, multi>>

HandleWalkInSettle(w) ==
  /\ wi[w].pc = "await"
  /\ LET acquired == wi[w].outcome # NoOutcome
         exit == withLockExit(locks, walkInKey(wi[w].startedAt), walkInOwner(w),
                              wi[w].outcome)
         lockResult == IF acquired THEN exit.result ELSE wi[w].lockResult
         result == handleWalkInResult(lockResult)
     IN /\ locks' = IF acquired THEN exit.locks ELSE locks
        /\ wi' = [wi EXCEPT ![w] =
                    IF result.success
                    THEN [@ EXCEPT !.pc = "done", !.lockResult = lockResult,
                                   !.result = result]
                    ELSE NewWalkInCall]
        /\ ret' = [op |-> "handleWalkIn", result |-> result]
  /\ UNCHANGED <<now, wl, grants, storeVars, cr, search, multi>>

\* The reservation engine, explored at one instant of the wall clock: the
\* clock is read only by validation (PAST_TIME), by the lock's expiry and for
\* the walk-in's start time.
Next ==
  \/ \E c \in CreateCalls, request \in CreateRequests :
       CreateReservationStart(c, request)
  \/ \E c \in CreateCalls : CreateReservationSettle(c)
  \/ \E id \in KnownIds, newStatus \in ReservationStatuses,
        expectedVersion \in 1..MaxVersion :
       UpdateReservationStatus(id, newStatus, expectedVersion)
  \/ \E id \in KnownIds, expectedVersion \in 1..MaxVersion :
       CancelReservation(id, expectedVersion)
  \/ \E tableId \in TableIds : ReleaseTimerFires(tableId)
  \/ \E w \in WalkInCalls, request \in WalkInRequests : HandleWalkInStart(w, request)
  \/ \E w \in WalkInCalls : HandleWalkInSettle(w)

Spec == Init /\ [][Next]_vars

\* ------------------------------------------------------------------------
\* Properties of the lock manager
\* ------------------------------------------------------------------------
HeldBy(L, key, owner) == key \in DOMAIN L /\ L[key].lockedBy = owner

BlockedFor(L, t, key, owner) ==
  key \in DOMAIN L /\ L[key].expiresAt > t /\ L[key].lockedBy # owner

\* C4: while a lock acquired by owner A is valid (expiry instant > now),
\* acquireLock by A succeeds and acquireLock by any other owner fails and
\* leaves A's entry as it was; once now >= the expiry instant, acquireLock by
\* any owner succeeds and the entry then belongs to that owner.
AcquireRespectsValidity ==
  ret.op = "acquireLock" =>
    LET e == ret.existing
        held == e # NoEntry
        valid == held /\ e.expiresAt > now
    IN /\ (valid /\ e.lockedBy = ret.owner => ret.success)
       /\ (valid /\ e.lockedBy # ret.owner =>
             ~ret.success /\ LockEntry(locks, ret.key) = e)
       /\ (held /\ now >= e.expiresAt => ret.success)
       /\ (ret.success =>
             /\ HeldBy(locks, ret.key, ret.owner)
             /\ locks[ret.key].expiresAt = now + DEFAULT_LOCK_TIMEOUT_MINUTES)

\* C4 witness: an owner took over a key whose entry, owned by another owner,
\* had expired.
ExpiredLockReclaimed ==
  /\ ret.op = "acquireLock"
  /\ ret.success
  /\ ret.existing # NoEntry
  /\ ret.existing.lockedBy # ret.owner
  /\ now >= ret.existing.expiresAt

\* C5: at no instant do two different owners hold a grant on the same key that
\* is still valid, and every valid grant is the entry the lock map holds for
\* its key: of the callers that try a free key at one instant one succeeds.
AtMostOneValidHolder ==
  /\ \A g1, g2 \in grants :
       (g1.key = g2.key /\ g1.expiresAt > now /\ g2.expiresAt > now)
         => g1.owner = g2.owner
  /\ \A g \in grants :
       g.expiresAt > now =>
         /\ HeldBy(locks, g.key, g.owner)
         /\ locks[g.key].expiresAt = g.expiresAt

\* C5 witness: a second owner tried a key in the very instant another owner
\* acquired it, and was refused.
ContendedAcquireRefused ==
  /\ ret.op = "acquireLock"
  /\ ~ret.success
  /\ ret.existing.lockedAt = now
  /\ \E g \in grants : g.key = ret.key /\ g.owner # ret.owner /\ g.expiresAt > now

\* C6: acquireMultipleLocks is all-or-nothing.  On success every requested key
\* is locked by the caller.  If a requested key is held by a valid lock of
\* another owner the call fails, and no requested key the caller did not hold
\* before the call is held by the caller after it.
MultiAllOrNothing ==
  [][ret'.op = "acquireMultipleLocks" =>
       LET owner == ret'.owner
           requested == Range(ret'.resources)
       IN /\ ret'.success => \A k \in requested : HeldBy(locks', k, owner)
          /\ (\E k \in requested : BlockedFor(locks, now, k, owner)) =>
               /\ ~ret'.success
               /\ \A k \in requested :
                    ~HeldBy(locks, k, owner) => ~HeldBy(locks', k, owner)]_vars

\* C6 witness: a call failed after it had acquired at least one lock.
MultiRolledBack ==
  /\ ret.op = "acquireMultipleLocks"
  /\ ~ret.success
  /\ ret.acquiredLocks # <<>>
  /\ \A k \in Range(ret.acquiredLocks) : k \notin DOMAIN locks

\* C7 (as claimed): when acquireMultipleLocks fails, every lock that existed
\* before the call is still present with the same owner after it.
MultiFailureKeepsExistingLocks ==
  [][(ret'.op = "acquireMultipleLocks" /\ ~ret'.success) =>
       \A k \in DOMAIN locks : HeldBy(locks', k, locks[k].lockedBy)]_vars

\* C8: acquireMultipleLocks tries the requested keys in ascending order of
\* their composite key whatever the order of the request: the keys it tried
\* are in ascending order; on success they are all the requested keys; on
\* failure it stopped at the least requested key that another owner validly
\* holds, having acquired exactly the requested keys below it.
MultiCanonicalOrder ==
  [][ret'.op = "acquireMultipleLocks" =>
       LET owner == ret'.owner
           requested == Range(ret'.resources)
           attempted == ret'.acquiredLocks \o ret'.failedOn
           blocked == {k \in requested : BlockedFor(locks, now, k, owner)}
       IN /\ \A i, j \in 1..Len(attempted) :
               i < j => KeyLess(attempted[i], attempted[j])
          /\ ret'.success => Range(attempted) = requested /\ ret'.failedOn = <<>>
          /\ ~ret'.success =>
               /\ Len(ret'.failedOn) = 1
               /\ ret'.failedOn[1] \in blocked
               /\ \A k \in blocked \ {ret'.failedOn[1]} : KeyLess(ret'.failedOn[1], k)
               /\ Range(ret'.acquiredLocks) =
                    {k \in requested : KeyLess(k, ret'.failedOn[1])}]_vars

\* C8 witness: a request that lists its keys in descending order succeeded.
MultiReorderedRequest ==
  /\ ret.op = "acquireMultipleLocks"
  /\ ret.success
  /\ Len(ret.resources) >= 2
  /\ KeyLess(ret.resources[2], ret.resources[1])
  /\ ret.acquiredLocks[1] = ret.resources[2]

\* C9: when withLock had acquired the key and its body has returned or
\* thrown, the call's own entry is gone when the result is delivered (so
\* unless the lock expired meanwhile the key is not locked), and the result
\* is success with the body's value or failure with the thrown error's
\* message.
WithLockReleasesOnExit ==
  (ret.op = "withLock" /\ ret.acquired) =>
    /\ ~HeldBy(locks, ret.key, uuidv4(ret.call))
    /\ (now < ret.expiresAt => ret.key \notin DOMAIN locks)
    /\ (ret.outcome.kind = "return" =>
          ret.result = [success |-> TRUE, result |-> ret.outcome.value, error |-> ""])
    /\ (ret.outcome.kind = "throw" =>
          ret.result = [success |-> FALSE, result |-> "", error |-> ret.outcome.value])
    /\ wl[ret.call].pc = "done"
    /\ wl[ret.call].result = ret.result

\* C9 witness: a body that suspended threw, and withLock exited before the
\* lock expired.
WithLockExitAfterThrow ==
  /\ ret.op = "withLock"
  /\ ret.acquired
  /\ ret.outcome.kind = "throw"
  /\ ret.lockedAt < now
  /\ now < ret.expiresAt

\* C10 (as claimed): at no time are the bodies of two withLock calls on the
\* same key both in progress.
BodiesMutuallyExclusive ==
  \A p, q \in WithLockCalls :
    (p # q /\ wl[p].pc = "body" /\ wl[q].pc = "body") => wl[p].key # wl[q].key

\* C10 (amended): until its lock expires a body in progress holds the lock,
\* and two bodies on one key are in progress together only when the lock of
\* the earlier call had expired before the later call acquired the key.
BodiesExclusiveUntilExpiry ==
  /\ \A p \in WithLockCalls :
       (wl[p].pc = "body" /\ now < wl[p].expiresAt) =>
         /\ HeldBy(locks, wl[p].key, wl[p].owner)
         /\ locks[wl[p].key].expiresAt = wl[p].expiresAt
  /\ \A p, q \in WithLockCalls :
       (p # q /\ wl[p].pc = "body" /\ wl[q].pc = "body" /\ wl[p].key = wl[q].key) =>
         \/ wl[p].expiresAt <= wl[q].lockedAt
         \/ wl[q].expiresAt <= wl[p].lockedAt

\* C10 witness: while one body is suspended under a lock that has not
\* expired, a second withLock call on the same key was refused.
RefusedWhileBodySuspended ==
  \E p, q \in WithLockCalls :
    /\ p # q
    /\ wl[p].pc = "body"
    /\ now < wl[p].expiresAt
    /\ wl[p].lockedAt < now
    /\ wl[q].pc = "done"
    /\ wl[q].key = wl[p].key
    /\ wl[q].result.error = LockedError

\* C11: releaseLock is idempotent and owner-checked.  On a key with no entry
\* it returns true and changes nothing; on a key locked by another owner it
\* returns false and leaves the lock map as it was; on a key locked by the
\* caller it removes that entry, leaves every other entry alone and returns
\* true, and the same release repeated at once returns true again and
\* changes nothing.
ReleaseOwnerCheckedIdempotent ==
  [][ret'.op = "releaseLock" =>
       LET e == ret'.existing
           again == releaseLock(locks', ret'.key, ret'.owner)
       IN /\ e = NoEntry => ret'.success /\ locks' = locks
          /\ (e # NoEntry /\ e.lockedBy # ret'.owner) =>
               ~ret'.success /\ locks' = locks
          /\ (e # NoEntry /\ e.lockedBy = ret'.owner) =>
               /\ ret'.success
               /\ DOMAIN locks' = (DOMAIN locks) \ {ret'.key}
               /\ \A k \in DOMAIN locks' : locks'[k] = locks[k]
               /\ again.ok
               /\ again.locks = locks']_vars

\* C11 witness: an owner was refused the release of a key that another owner
\* holds, and the holder's entry is still in the lock map.
ForeignReleaseRefused ==
  /\ ret.op = "releaseLock"
  /\ ~ret.success
  /\ ret.existing # NoEntry
  /\ ret.existing.lockedBy # ret.owner
  /\ HeldBy(locks, ret.key, ret.existing.lockedBy)

\* ------------------------------------------------------------------------
\* Properties of the reservation engine
\* ------------------------------------------------------------------------
\* The calls that hold a reservation: still suspended after their critical
\* section returned one, or done.
CallClaimed(c) ==
  \/ cr[c].pc = "await" /\ cr[c].outcome.kind = "return"
  \/ cr[c].pc = "done"

CallReservation(c) ==
  reservations[IF cr[c].pc = "done" THEN cr[c].result.data ELSE cr[c].outcome.value]

\* C1: on every table, the reservations whose status is not CANCELLED,
\* COMPLETED or NO_SHOW have pairwise non-overlapping [start, end) intervals,
\* in every state reachable through createReservation, updateReservationStatus,
\* cancelReservation, handleWalkIn and firings of the release timer.
NoDoubleBooking ==
  \A i, j \in 1..Len(reservations) :
    (/\ i < j
     /\ reservations[i].tableId = reservations[j].tableId
     /\ ActiveStatus(reservations[i].status)
     /\ ActiveStatus(reservations[j].status))
    => ~doTimeRangesOverlap(reservations[i].startTime, reservations[i].endTime,
                            reservations[j].startTime, reservations[j].endTime)

\* C2: two createReservation calls, one started while the other was still
\* in flight, whose windows overlap and whose start instants differ, are
\* never both CONFIRMED on the same table.
ConcurrentOverlappingNeverShareTable ==
  \A c, d \in CreateCalls :
    (/\ c # d
     /\ d \in cr[c].startedDuring
     /\ CallClaimed(c)
     /\ CallClaimed(d)
     /\ CallReservation(c).startTime # CallReservation(d).startTime
     /\ doTimeRangesOverlap(CallReservation(c).startTime, CallReservation(c).endTime,
                            CallReservation(d).startTime, CallReservation(d).endTime)
     /\ CallReservation(c).status = "CONFIRMED"
     /\ CallReservation(d).status = "CONFIRMED")
    => CallReservation(c).tableId # CallReservation(d).tableId

ConcurrentOverlappingBothConfirmed ==
  \E c, d \in CreateCalls :
    /\ c # d
    /\ d \in cr[c].startedDuring
    /\ cr[c].pc = "done"
    /\ cr[d].pc = "done"
    /\ CallReservation(c).startTime # CallReservation(d).startTime
    /\ doTimeRangesOverlap(CallReservation(c).startTime, CallReservation(c).endTime,
                           CallReservation(d).startTime, CallReservation(d).endTime)
    /\ CallReservation(c).status = "CONFIRMED"
    /\ CallReservation(d).status = "CONFIRMED"
    /\ CallReservation(c).tableId # CallReservation(d).tableId

\* C3: of two createReservation calls for the identical start instant, one
\* started while the other was in flight holding its table, the later one is
\* either given a different table or fails with NO_AVAILABILITY.  (A request
\* that names a table that does not exist is not a case of the claim.)
SameInstantRivalServedOrNoAvailability ==
  \A c, d \in CreateCalls :
    (/\ c # d
     /\ cr[c].pc = "await"
     /\ d \in cr[c].startedDuring
     /\ CallClaimed(d)
     /\ CallReservation(d).startTime = cr[c].startTime.instant
     /\ ~(cr[c].outcome.kind = "throw" /\ cr[c].outcome.value = "TABLE_NOT_FOUND"))
    => \/ /\ cr[c].outcome.kind = "return"
          /\ CallReservation(c).tableId # CallReservation(d).tableId
       \/ /\ cr[c].outcome.kind = "throw"
          /\ cr[c].outcome.value = "NO_AVAILABILITY"

\* The transition table of the reservation state machine.
StatusEdges ==
  {<<"PENDING", "CONFIRMED">>, <<"PENDING", "CANCELLED">>,
   <<"CONFIRMED", "SEATED">>, <<"CONFIRMED", "CANCELLED">>,
   <<"CONFIRMED", "NO_SHOW">>, <<"SEATED", "COMPLETED">>}

\* The versions a client can present: those a reservation has had and one
\* it has not reached.
PresentableVersions == 1..(MaxVersion + 2)

\* The number of accepted updates a reservation has had, read off its
\* status: createReservation stores it CONFIRMED and handleWalkIn SEATED.
AcceptedUpdates(r) ==
  IF r.isWalkIn
  THEN IF r.status = "SEATED" THEN 0 ELSE 1
  ELSE CASE r.status = "CONFIRMED" -> 0
         [] r.status = "COMPLETED" -> 2
         [] OTHER -> 1

\* The version of every stored reservation is 1 plus the number of updates
\* accepted for it, and an update accepted now presents the stored version
\* and stores that version plus 1.
VersionCountsAcceptedUpdates ==
  /\ \A i \in 1..Len(reservations) :
       reservations[i].version = 1 + AcceptedUpdates(reservations[i])
  /\ \A id \in 1..Len(reservations), newStatus \in ReservationStatuses,
        expectedVersion \in PresentableVersions :
       LET r == updateReservationStatus(Stores, timers, id, newStatus,
                                        expectedVersion)
       IN r.code = "" =>
            /\ reservations[id].version = expectedVersion
            /\ r.stores.reservations[id].version = expectedVersion + 1
            /\ \A j \in 1..Len(reservations) :
                 j # id => r.stores.reservations[j] = reservations[j]

\* C12 (as claimed): a reservation's version starts at 1 and increments by
\* exactly 1 on each accepted update; updateReservationStatus on an existing
\* reservation whose expectedVersion differs from the stored version never
\* mutates the reservation or any table and always reports
\* CONCURRENT_MODIFICATION.
StaleVersionAlwaysConcurrentModification ==
  /\ VersionCountsAcceptedUpdates
  /\ \A id \in 1..Len(reservations), newStatus \in ReservationStatuses,
        expectedVersion \in PresentableVersions :
       LET r == updateReservationStatus(Stores, timers, id, newStatus,
                                        expectedVersion)
       IN reservations[id].version # expectedVersion =>
            /\ r.code = "CONCURRENT_MODIFICATION"
            /\ r.stores.reservations = reservations
            /\ r.stores.tables = tables

\* C12 (amended): a reservation's version starts at 1 and increments by
\* exactly 1 on each accepted update; updateReservationStatus on an existing
\* reservation whose expectedVersion differs from the stored version never
\* mutates a store or arms a release timer, and reports
\* CONCURRENT_MODIFICATION when the stored status may change to the
\* requested one and INVALID_STATUS_TRANSITION when it may not.
StaleVersionNeverMutates ==
  /\ VersionCountsAcceptedUpdates
  /\ \A id \in 1..Len(reservations), newStatus \in ReservationStatuses,
        expectedVersion \in PresentableVersions :
       LET r == updateReservationStatus(Stores, timers, id, newStatus,
                                        expectedVersion)
       IN reservations[id].version # expectedVersion =>
            /\ r.code =
                 IF <<reservations[id].status, newStatus>> \in StatusEdges
                 THEN "CONCURRENT_MODIFICATION"
                 ELSE "INVALID_STATUS_TRANSITION"
            /\ r.stores = Stores
            /\ r.timers = timers

\* C12 witness: an update was refused for its stale version: the
\* reservation it named had been updated before.
StaleUpdateRefused ==
  /\ ret.op = "updateReservationStatus"
  /\ ret.code = "CONCURRENT_MODIFICATION"
  /\ \E i \in 1..Len(reservations) : reservations[i].version = 2

\* C13: a reservation's status only ever changes along PENDING -> CONFIRMED
\* or CANCELLED, CONFIRMED -> SEATED, CANCELLED or NO_SHOW, SEATED ->
\* COMPLETED, so COMPLETED, CANCELLED and NO_SHOW are terminal; every other
\* requested transition, a status to itself included, fails with
\* INVALID_STATUS_TRANSITION and leaves the reservation, its version and
\* every table unchanged.
StatusFollowsTransitionTable ==
  /\ [][\A i \in 1..Len(reservations) :
          /\ i <= Len(reservations')
          /\ reservations'[i].status # reservations[i].status =>
               <<reservations[i].status, reservations'[i].status>> \in StatusEdges]_vars
  /\ [](\A id \in 1..Len(reservations), newStatus \in ReservationStatuses,
          expectedVersion \in PresentableVersions :
         LET r == updateReservationStatus(Stores, timers, id, newStatus,
                                          expectedVersion)
         IN <<reservations[id].status, newStatus>> \notin StatusEdges =>
              /\ r.code = "INVALID_STATUS_TRANSITION"
              /\ r.stores = Stores
              /\ r.timers = timers)

\* C13 witness: an update of a reservation in a terminal status was refused
\* as an invalid transition.
TerminalStatusUpdateRefused ==
  /\ ret.op = "updateReservationStatus"
  /\ ret.code = "INVALID_STATUS_TRANSITION"
  /\ \A i \in 1..Len(reservations) :
       reservations[i].status \in {"COMPLETED", "CANCELLED", "NO_SHOW"}
  /\ reservations # <<>>

\* The error codes validateCreateRequest returns.
CreateValidationCodes ==
  {"INVALID_PARTY_SIZE", "INVALID_CUSTOMER_NAME", "INVALID_TIME",
   "INVALID_TIMEZONE", "PAST_TIME"}

\* The instants at which a request can arrive.
ArrivalInstants == 0..MaxClock

\* C14: createReservation with a party size of 0 or outside [1,20], an empty
\* customer name, an unparsable start time, an invalid timezone or a start
\* that is not strictly in the future is rejected by validation with the
\* corresponding error (INVALID_PARTY_SIZE for party size 0, PAST_TIME for a
\* past start of an otherwise valid request), and a call rejected by
\* validation creates no customer and no reservation, changes no table and
\* no waiter and takes no lock.
ValidationRejectsWithoutEffect ==
  /\ [](\A request \in CreateRequests, t \in ArrivalInstants :
         LET code == validateCreateRequest(request, t)
             badSize == request.partySize < 1 \/ request.partySize > 20
             badName == request.customerName = ""
             badTime == \/ request.startTime.text = ""
                        \/ request.startTime.instant = InvalidDate
             badZone == request.timezone \notin ValidTimezones \cup {""}
             past == ~badTime /\ request.startTime.instant <= t
         IN /\ (badSize \/ badName \/ badTime \/ badZone \/ past) <=>
                 code \in CreateValidationCodes
            /\ code \notin CreateValidationCodes => code = ""
            /\ badSize => code = "INVALID_PARTY_SIZE"
            /\ (~badSize /\ badName) => code = "INVALID_CUSTOMER_NAME"
            /\ (~badSize /\ ~badName /\ badTime) => code = "INVALID_TIME"
            /\ (~badSize /\ ~badName /\ ~badTime /\ badZone) =>
                 code = "INVALID_TIMEZONE"
            /\ (~badSize /\ ~badName /\ ~badZone /\ past) => code = "PAST_TIME")
  /\ [][(/\ ret'.op = "createReservation"
         /\ ret'.result.code \in CreateValidationCodes)
        => /\ ~ret'.result.success
           /\ UNCHANGED <<customers, reservations, tables, waiters, timers, locks>>]_vars

\* C14 witness: with a reservation already stored, a request for a start
\* that is not in the future was rejected with PAST_TIME.
PastStartRejected ==
  /\ ret.op = "createReservation"
  /\ ret.result.code = "PAST_TIME"
  /\ ~ret.result.success
  /\ reservations # <<>>
  /\ locks = EmptyMap

\* The requests that reach the critical section of createReservation now.
AdmittedCreateRequests ==
  {request \in CreateRequests : validateCreateRequest(request, now) = ""}

\* The window [start, end) a request asks for.
RequestedStart(request) == request.startTime.instant

RequestedEnd(request) ==
  request.startTime.instant +
    (IF request.durationMinutes = Undefined THEN DEFAULT_DURATION_MINUTES
     ELSE request.durationMinutes)

\* The tables eligible for a request: large enough, in service, and free of
\* any reservation that is not CANCELLED, COMPLETED or NO_SHOW and whose
\* window overlaps the requested one.
EligibleTables(request) ==
  {t \in 1..Len(tables) :
     /\ tables[t].capacity >= request.partySize
     /\ tables[t].status # "OUT_OF_SERVICE"
     /\ \A i \in 1..Len(reservations) :
          ~(/\ reservations[i].tableId = t
            /\ reservations[i].status \notin {"CANCELLED", "COMPLETED", "NO_SHOW"}
            /\ reservations[i].startTime < RequestedEnd(request)
            /\ RequestedStart(request) < reservations[i].endTime)}

\* C15: when createReservation fails inside its critical section (no
\* eligible table: NO_AVAILABILITY; preferredTableId naming no existing
\* table: TABLE_NOT_FOUND), the customer, reservation, table and waiter
\* stores are as they were before the call, and the timeslot lock the call
\* took is released when it delivers its result.
CriticalSectionFailureLeavesNoTrace ==
  /\ [](\A request \in AdmittedCreateRequests :
         LET body == createReservationBody(Stores, request)
             missing == /\ request.preferredTableId # Undefined
                        /\ request.preferredTableId \notin 1..Len(tables)
         IN /\ missing =>
                 body.outcome = [kind |-> "throw", value |-> "TABLE_NOT_FOUND"]
            /\ (~missing /\ EligibleTables(request) = {}) =>
                 body.outcome = [kind |-> "throw", value |-> "NO_AVAILABILITY"]
            /\ body.outcome.kind = "throw" =>
                 /\ missing \/ EligibleTables(request) = {}
                 /\ body.stores = Stores)
  /\ [][\A c \in CreateCalls :
          /\ (/\ cr[c].pc = "new"
              /\ cr'[c].pc = "await"
              /\ cr'[c].outcome.kind = "throw")
             => /\ UNCHANGED <<customers, reservations, tables, waiters, timers>>
                /\ HeldBy(locks', timeslotKey(cr'[c].startTime), createOwner(c))
          /\ (/\ cr[c].pc = "await"
              /\ cr[c].outcome.kind = "throw"
              /\ cr'[c].pc # "await")
             => /\ UNCHANGED <<customers, reservations, tables, waiters, timers>>
                /\ timeslotKey(cr[c].startTime) \notin DOMAIN locks'
                /\ ret'.op = "createReservation"
                /\ ret'.result =
                     [success |-> FALSE, data |-> Undefined,
                      code |-> cr[c].outcome.value]]_vars

\* C15 witness: with reservations stored, a call found no eligible table and
\* delivered NO_AVAILABILITY, and no lock is left.
NoAvailabilityDelivered ==
  /\ ret.op = "createReservation"
  /\ ret.result.code = "NO_AVAILABILITY"
  /\ reservations # <<>>
  /\ locks = EmptyMap

\* The least capacity among a set of tables.
MinCapacity(ts) ==
  CHOOSE n \in {tables[t].capacity : t \in ts} :
    \A t \in ts : n <= tables[t].capacity

\* C16: a successful createReservation without a preferred table stores
\* exactly one new reservation, with status CONFIRMED, version 1 and
\* isWalkIn = false, for the requested window, on a table of minimum
\* capacity among the tables eligible for the requested window and party
\* size, and sets that table's status to RESERVED and no other table's.
CreateStoresConfirmedOnSmallestEligible ==
  /\ [](\A request \in AdmittedCreateRequests :
         LET body == createReservationBody(Stores, request)
             id == Len(reservations) + 1
             new == body.stores.reservations[id]
         IN (request.preferredTableId = Undefined /\ EligibleTables(request) # {}) =>
              /\ body.outcome = [kind |-> "return", value |-> id]
              /\ Len(body.stores.reservations) = id
              /\ \A i \in 1..Len(reservations) :
                   body.stores.reservations[i] = reservations[i]
              /\ new.status = "CONFIRMED"
              /\ new.version = 1
              /\ new.isWalkIn = FALSE
              /\ new.startTime = RequestedStart(request)
              /\ new.endTime = RequestedEnd(request)
              /\ new.tableId \in EligibleTables(request)
              /\ tables[new.tableId].capacity = MinCapacity(EligibleTables(request))
              /\ body.stores.tables =
                   [t \in 1..Len(tables) |->
                      IF t = new.tableId
                      THEN [capacity |-> tables[t].capacity, status |-> "RESERVED"]
                      ELSE tables[t]])
  /\ [][\A c \in CreateCalls :
          /\ (/\ cr[c].pc = "new"
              /\ cr'[c].pc = "await"
              /\ cr'[c].outcome.kind = "return")
             => /\ Len(reservations') = Len(reservations) + 1
                /\ cr'[c].outcome.value = Len(reservations')
                /\ reservations'[Len(reservations')].status = "CONFIRMED"
                /\ tables'[reservations'[Len(reservations')].tableId].status = "RESERVED"
          /\ (cr[c].pc = "await" /\ cr'[c].pc = "done")
             => /\ ret'.op = "createReservation"
                /\ ret'.result =
                     [success |-> TRUE, data |-> cr[c].outcome.value, code |-> ""]
                /\ UNCHANGED <<customers, reservations, tables, waiters, timers>>]_vars

\* C16 witness: a call without a preferred table succeeded although the
\* smallest table that seats the party was taken for its window: its
\* reservation is CONFIRMED on a larger table, which is RESERVED.
ConfirmedOnNextSmallestTable ==
  /\ ret.op = "createReservation"
  /\ ret.result.success
  /\ LET new == reservations[ret.result.data]
     IN /\ new.status = "CONFIRMED"
        /\ new.version = 1
        /\ tables[new.tableId].status = "RESERVED"
        /\ \E t \in 1..Len(tables) :
             /\ tables[t].capacity < tables[new.tableId].capacity
             /\ \E i \in 1..Len(reservations) :
                  /\ i # ret.result.data
                  /\ reservations[i].tableId = t
                  /\ reservations[i].status = "CONFIRMED"

\* The event loop runs what is ready: the promise jobs of a started call and,
\* between tasks, every release timer that is due.
Fairness ==
  /\ \A c \in CreateCalls : WF_vars(CreateReservationSettle(c))
  /\ \A w \in WalkInCalls : WF_vars(HandleWalkInSettle(w))
  /\ \A tableId \in TableIds : SF_vars(ReleaseTimerFires(tableId))

SpecFair == Spec /\ Fairness

\* C17: on a successful updateReservationStatus for a reservation with a
\* table, a transition to SEATED sets the table to OCCUPIED; a transition to
\* COMPLETED, CANCELLED or NO_SHOW sets the table to CLEANING before the call
\* returns and schedules a deferred task; the call returns its result while
\* that task is still pending, and the task later sets the table to
\* AVAILABLE (a timer callback is a task: it runs if the promise jobs of the
\* calls in flight come to an end again and again).
UpdateSetsTableAndDefersRelease ==
  /\ [][/\ (ret'.op = "updateReservationStatus" /\ ret'.code = "") =>
             \E i \in 1..Len(reservations) :
               LET tableId == reservations[i].tableId
                   newStatus == reservations'[i].status
               IN /\ newStatus # reservations[i].status
                  /\ tableId # Undefined
                  /\ newStatus = "SEATED" =>
                       /\ tables'[tableId].status = "OCCUPIED"
                       /\ timers' = timers
                  /\ newStatus \in {"COMPLETED", "CANCELLED", "NO_SHOW"} =>
                       /\ tables'[tableId].status = "CLEANING"
                       /\ timers' = [timers EXCEPT ![tableId] = @ + 1]
                  /\ \A t \in TableIds : t # tableId => tables'[t] = tables[t]
        /\ \A t \in TableIds :
             timers'[t] < timers[t] =>
               /\ ret'.op = "releaseTimer"
               /\ timers'[t] = timers[t] - 1
               /\ tables'[t].status = "AVAILABLE"]_vars
  /\ ([]<>(InFlight = {})) =>
       \A t \in TableIds : (timers[t] > 0) ~> (tables[t].status = "AVAILABLE")

\* C17 witness: a cancellation has returned, its table is CLEANING and the
\* task that will release the table has not run yet.
ReleasePendingAfterReturn ==
  /\ ret.op = "updateReservationStatus"
  /\ ret.code = ""
  /\ \E i \in 1..Len(reservations) :
       /\ reservations[i].status = "CANCELLED"
       /\ tables[reservations[i].tableId].status = "CLEANING"
       /\ timers[reservations[i].tableId] > 0

\* C18 (as claimed): the deferred table-release task is cancelled or
\* superseded when the table is reserved or occupied again before it fires:
\* a release timer that fires on a table that is RESERVED or OCCUPIED leaves
\* the table's status as it is.
ReleaseTimerSupersededByReuse ==
  [][\A t \in TableIds :
       (/\ ret'.op = "releaseTimer"
        /\ timers'[t] < timers[t]
        /\ tables[t].status \in {"RESERVED", "OCCUPIED"})
       => tables'[t].status = tables[t].status]_vars

\* The tables a walk-in party can be given: AVAILABLE and large enough.
WalkInCandidates(partySize) ==
  {t \in 1..Len(tables) :
     tables[t].status = "AVAILABLE" /\ tables[t].capacity >= partySize}

\* The walk-in requests that pass validation.
AdmittedWalkInRequests ==
  {request \in WalkInRequests : validateWalkInRequest(request) = ""}

\* C19: a successful handleWalkIn picks, among the tables with status
\* AVAILABLE and capacity >= party size, a table whose capacity equals the
\* party size if one exists and otherwise one of smallest capacity; it
\* stores one new reservation with status SEATED, isWalkIn = true, version
\* 1, start = now and end = now + 90 minutes, and sets the chosen table's
\* status to OCCUPIED.
WalkInSeatedOnBestFit ==
  /\ [](\A request \in AdmittedWalkInRequests, t \in ArrivalInstants :
         LET body == handleWalkInBody(Stores, t, request)
             id == Len(reservations) + 1
             new == body.stores.reservations[id]
             candidates == WalkInCandidates(request.partySize)
             exact == {c \in candidates : tables[c].capacity = request.partySize}
         IN candidates # {} =>
              /\ body.outcome = [kind |-> "return", value |-> id]
              /\ Len(body.stores.reservations) = id
              /\ \A i \in 1..Len(reservations) :
                   body.stores.reservations[i] = reservations[i]
              /\ new.tableId \in candidates
              /\ exact # {} => new.tableId \in exact
              /\ exact = {} => tables[new.tableId].capacity = MinCapacity(candidates)
              /\ new.status = "SEATED"
              /\ new.isWalkIn = TRUE
              /\ new.version = 1
              /\ new.startTime = t
              /\ new.endTime = t + 90
              /\ body.stores.tables =
                   [x \in 1..Len(tables) |->
                      IF x = new.tableId
                      THEN [capacity |-> tables[x].capacity, status |-> "OCCUPIED"]
                      ELSE tables[x]])
  /\ [][\A w \in WalkInCalls :
          /\ (/\ wi[w].pc = "new"
              /\ wi'[w].pc = "await"
              /\ wi'[w].outcome.kind = "return")
             => /\ Len(reservations') = Len(reservations) + 1
                /\ wi'[w].outcome.value = Len(reservations')
                /\ reservations'[Len(reservations')].status = "SEATED"
                /\ reservations'[Len(reservations')].isWalkIn
                /\ reservations'[Len(reservations')].startTime = now
                /\ reservations'[Len(reservations')].endTime = now + 90
                /\ tables[reservations'[Len(reservations')].tableId].status = "AVAILABLE"
                /\ tables'[reservations'[Len(reservations')].tableId].status = "OCCUPIED"
          /\ (wi[w].pc = "await" /\ wi'[w].pc = "done")
             => /\ ret'.op = "handleWalkIn"
                /\ ret'.result =
                     [success |-> TRUE, data |-> wi[w].outcome.value, code |-> ""]
                /\ UNCHANGED <<customers, reservations, tables, waiters, timers>>]_vars

\* C19 witness: a party of 4 walked in while the table for 2 and the table
\* for 4 were both AVAILABLE and was seated at the table for 4.
WalkInSeatedAtExactFit ==
  /\ ret.op = "handleWalkIn"
  /\ ret.result.success
  /\ LET new == reservations[ret.result.data]
     IN /\ new.status = "SEATED"
        /\ new.isWalkIn
        /\ tables[new.tableId].capacity = 4
        /\ tables[new.tableId].status = "OCCUPIED"
        /\ \E t \in 1..Len(tables) :
             tables[t].capacity < 4 /\ tables[t].status = "AVAILABLE"

\* The error codes validateWalkInRequest returns.
WalkInValidationCodes == {"INVALID_CUSTOMER_NAME", "INVALID_PARTY_SIZE"}

\* C20: handleWalkIn with no AVAILABLE table of sufficient capacity fails
\* with NO_AVAILABLE_TABLES and creates no customer and no reservation and
\* changes no table and no waiter; a walk-in whose party size is outside
\* [1,20] or whose name is empty is rejected by validation and likewise
\* mutates nothing.
WalkInFailureMutatesNothing ==
  /\ [](/\ \A request \in WalkInRequests :
            LET code == validateWalkInRequest(request)
                badName == request.customerName = ""
                badSize == request.partySize < 1 \/ request.partySize > 20
            IN /\ (badName \/ badSize) <=> code \in WalkInValidationCodes
               /\ code \notin WalkInValidationCodes => code = ""
               /\ badName => code = "INVALID_CUSTOMER_NAME"
               /\ (~badName /\ badSize) => code = "INVALID_PARTY_SIZE"
        /\ \A request \in AdmittedWalkInRequests, t \in ArrivalInstants :
            LET body == handleWalkInBody(Stores, t, request)
            IN /\ WalkInCandidates(request.partySize) = {} =>
                    body.outcome = [kind |-> "throw", value |-> "NO_AVAILABLE_TABLES"]
               /\ body.outcome.kind = "throw" =>
                    /\ WalkInCandidates(request.partySize) = {}
                    /\ body.stores = Stores)
  /\ [][/\ (/\ ret'.op = "handleWalkIn"
            /\ ret'.result.code \in WalkInValidationCodes)
           => /\ ~ret'.result.success
              /\ UNCHANGED <<customers, reservations, tables, waiters, timers, locks>>
        /\ \A w \in WalkInCalls :
             /\ (/\ wi[w].pc = "new"
                 /\ wi'[w].pc = "await"
                 /\ wi'[w].outcome.kind = "throw")
                => UNCHANGED <<customers, reservations, tables, waiters, timers>>
             /\ (/\ wi[w].pc = "await"
                 /\ wi[w].outcome.kind = "throw"
                 /\ wi'[w].pc # "await")
                => /\ UNCHANGED <<customers, reservations, tables, waiters, timers>>
                   /\ ret'.op = "handleWalkIn"
                   /\ ret'.result =
                        [success |-> FALSE, data |-> Undefined,
                         code |-> "NO_AVAILABLE_TABLES"]]_vars

\* C20 witness: a walk-in was turned away with NO_AVAILABLE_TABLES while no
\* table was AVAILABLE.
WalkInTurnedAway ==
  /\ ret.op = "handleWalkIn"
  /\ ret.result.code = "NO_AVAILABLE_TABLES"
  /\ ~ret.result.success
  /\ \A t \in 1..Len(tables) : tables[t].status # "AVAILABLE"

\* ------------------------------------------------------------------------
\* Availability queries
\* ------------------------------------------------------------------------
OPERATING_HOURS_START == 11
OPERATING_HOURS_END == 22
maxSearchHours == 24
MinutesPerHour == 60
MinutesPerDay == 24 * MinutesPerHour

\* Ticks of the clock per minute: (endTime - now) / 60000 is a fraction of
\* a minute whenever now is not on a whole minute.
ClockTicksPerMinute == 2

Max(a, b) == IF a >= b THEN a ELSE b

\* Math.ceil(a / b) for b > 0.
Ceil(a, b) == -((-a) \div b)

\* A Result that carries data, and a Result that carries an error code.
Success(data) == [success |-> TRUE, data |-> data, code |-> ""]
Failure(code) == [success |-> FALSE, data |-> <<>>, code |-> code]

\* The null of a Result<AvailabilitySlot | null>.
NoSlot ==
  [tableId |-> Undefined, tableCapacity |-> 0, startTime |-> InvalidDate,
   endTime |-> InvalidDate, isAvailable |-> FALSE]

AvailabilitySlot(T, tableId, startTime, endTime) ==
  [tableId |-> tableId, tableCapacity |-> T[tableId].capacity,
   startTime |-> startTime, endTime |-> endTime, isAvailable |-> TRUE]

\* checkAvailability, mutated: the slots are listed in store order.
checkAvailability_StoreOrder(S, request) ==
  LET timezone == IF request.timezone = "" THEN "UTC" ELSE request.timezone
      endTime == calculateEndTime(request.startTime, Duration(request))
      listed ==
        SelectSeq(getAll(S.tables),
                  LAMBDA t : t \in Range(findAvailableTables(
                                 S, parseDateTime(request.startTime), endTime,
                                 request.partySize, Undefined)))
  IN IF ~isValidTimezone(timezone) THEN Failure("INVALID_TIMEZONE")
     ELSE Success([i \in 1..Len(listed) |->
                     AvailabilitySlot(S.tables, listed[i],
                                      request.startTime, endTime)])

checkAvailability(S, request) ==
  LET timezone == IF request.timezone = "" THEN "UTC" ELSE request.timezone
      duration == Duration(request)
      endTime == calculateEndTime(request.startTime, duration)
      availableTables ==
        findAvailableTables(S, parseDateTime(request.startTime), endTime,
                            request.partySize, Undefined)
  IN IF ~isValidTimezone(timezone) THEN Failure("INVALID_TIMEZONE")
     ELSE Success([i \in 1..Len(availableTables) |->
                     AvailabilitySlot(S.tables, availableTables[i],
                                      request.startTime, endTime)])

\* isTableAvailable, mutated: a cancelled, completed or no-show reservation
\* still blocks its table.
isTableAvailable_AnyStatusBlocks(S, tableId, startTime, endTime) ==
  /\ getById(S.tables, tableId)
  /\ S.tables[tableId].status # "OUT_OF_SERVICE"
  /\ SelectSeq(findByTimeRange(S.reservations, startTime, endTime),
               LAMBDA r : S.reservations[r].tableId = tableId) = <<>>

isTableAvailable(S, tableId, startTime, endTime) ==
  LET R == S.reservations
  IN IF ~getById(S.tables, tableId) THEN FALSE
     ELSE IF S.tables[tableId].status = "OUT_OF_SERVICE" THEN FALSE
     ELSE LET overlappingReservations ==
                SelectSeq(findByTimeRange(R, startTime, endTime),
                          LAMBDA r : /\ R[r].tableId = tableId
                                     /\ R[r].status # "CANCELLED"
                                     /\ R[r].status # "COMPLETED"
                                     /\ R[r].status # "NO_SHOW")
          IN Len(overlappingReservations) = 0

\* The tables a slot search looks at, in store order.
SuitableTables(T, partySize) ==
  SelectSeq(findByCapacity(T, partySize),
            LAMBDA t : T[t].status # "OUT_OF_SERVICE")

\* Offset of a timezone's local time from UTC, in minutes.
UtcOffset(timezone) ==
  IF timezone = "America/New_York" THEN -5 * MinutesPerHour ELSE 0

\* The calendar day `date' falls on in the timezone, as the UTC midnight
\* and the last minute of the day of that number.
getDayBoundsInTimezone(date, timezone) ==
  LET day == (date + UtcOffset(timezone)) \div MinutesPerDay
  IN [start |-> day * MinutesPerDay,
      end |-> day * MinutesPerDay + MinutesPerDay - 1]

\* The body of the for loop over suitableTables at one slot.
SlotsAt(S, suitableTables, slotStart, slotEnd) ==
  LET free == SelectSeq(suitableTables,
                        LAMBDA t : isTableAvailable(S, t, slotStart, slotEnd))
  IN [i \in 1..Len(free) |-> AvailabilitySlot(S.tables, free[i], slotStart, slotEnd)]

\* The while loop of getAvailableSlots from currentSlot on.
RECURSIVE SlotLoop(_, _, _, _, _, _, _)
SlotLoop(S, t, suitableTables, currentSlot, operatingEnd, durationMinutes, slots) ==
  IF ~(currentSlot < operatingEnd) THEN slots
  ELSE SlotLoop(S, t, suitableTables,
                addMinutes(currentSlot, SLOT_DURATION_MINUTES), operatingEnd,
                durationMinutes,
                IF currentSlot > t
                THEN slots \o SlotsAt(S, suitableTables, currentSlot,
                                      addMinutes(currentSlot, durationMinutes))
                ELSE slots)

getAvailableSlots(S, t, date, partySize, timezone, durationMinutes) ==
  IF ~isValidTimezone(timezone) THEN Failure("INVALID_TIMEZONE")
  ELSE IF partySize < 1 \/ partySize > 20 THEN Failure("INVALID_PARTY_SIZE")
  ELSE LET dayStart == getDayBoundsInTimezone(date, timezone).start
           suitableTables == SuitableTables(S.tables, partySize)
           operatingStart == dayStart + OPERATING_HOURS_START * MinutesPerHour
           operatingEnd == dayStart + OPERATING_HOURS_END * MinutesPerHour
       IN IF Len(suitableTables) = 0 THEN Success(<<>>)
          ELSE Success(SlotLoop(S, t, suitableTables, operatingStart,
                                operatingEnd, durationMinutes, <<>>))

\* The first suitable table free for [startTime, endTime), as a slot.
ProbeSlot(S, suitableTables, startTime, endTime) ==
  LET free == SelectSeq(suitableTables,
                        LAMBDA t : isTableAvailable(S, t, startTime, endTime))
  IN IF free = <<>> THEN NoSlot
     ELSE AvailabilitySlot(S.tables, free[1], startTime, endTime)

\* getNextAvailableSlot up to its while loop: the Result when it returns
\* before the loop, and the loop's locals otherwise.
getNextAvailableSlotEntry(S, partySize, fromTime, durationMinutes) ==
  LET suitableTables == SuitableTables(S.tables, partySize)
      first == ProbeSlot(S, suitableTables, fromTime,
                         addMinutes(fromTime, durationMinutes))
      call == [NoSearch EXCEPT !.partySize = partySize, !.fromTime = fromTime,
                               !.durationMinutes = durationMinutes,
                               !.checkTime = fromTime]
  IN IF Len(suitableTables) = 0
     THEN [search |-> [call EXCEPT !.pc = "done"], result |-> Success(NoSlot)]
     ELSE IF first # NoSlot
     THEN [search |-> [call EXCEPT !.pc = "done", !.probes = 1],
           result |-> Success(first)]
     ELSE [search |-> [call EXCEPT
                         !.pc = "loop", !.probes = 1,
                         !.checkTime = addMinutes(fromTime, SLOT_DURATION_MINUTES)],
           result |-> NoResult]

\* getNextAvailableSlotIteration, mutated: checkTime is not advanced.
getNextAvailableSlotIteration_NoAdvance(S, s) ==
  LET found == ProbeSlot(S, SuitableTables(S.tables, s.partySize), s.checkTime,
                         addMinutes(s.checkTime, s.durationMinutes))
  IN IF found # NoSlot
     THEN [search |-> [s EXCEPT !.pc = "done", !.probes = @ + 1],
           result |-> Success(found)]
     ELSE [search |-> s, result |-> NoResult]

\* One evaluation of the while condition and, when it holds, one pass of
\* the loop body.
getNextAvailableSlotIteration(S, s) ==
  LET searchEnd == addMinutes(s.fromTime, maxSearchHours * MinutesPerHour)
      slotEnd == addMinutes(s.checkTime, s.durationMinutes)
      found == ProbeSlot(S, SuitableTables(S.tables, s.partySize),
                         s.checkTime, slotEnd)
  IN IF ~(s.checkTime < searchEnd)
     THEN [search |-> [s EXCEPT !.pc = "done"], result |-> Success(NoSlot)]
     ELSE IF found # NoSlot
     THEN [search |-> [s EXCEPT !.pc = "done", !.probes = @ + 1],
           result |-> Success(found)]
     ELSE [search |-> [s EXCEPT
                         !.probes = @ + 1,
                         !.checkTime = addMinutes(s.checkTime, SLOT_DURATION_MINUTES)],
           result |-> NoResult]

findByStatus(store, status) ==
  SelectSeq(getAll(store), LAMBDA i : store[i].status = status)

\* The seated reservations on tables large enough, by end time (stable).
SeatedByEndTime(S, partySize) ==
  LET R == S.reservations
      seated ==
        SelectSeq(findByStatus(R, "SEATED"),
                  LAMBDA r : /\ getById(S.tables, R[r].tableId)
                             /\ S.tables[R[r].tableId].capacity >= partySize)
      F[i \in 0..Len(seated)] ==
        IF i = 0 THEN <<>>
        ELSE SelectSeq(F[i - 1], LAMBDA y : R[y].endTime <= R[seated[i]].endTime)
               \o <<seated[i]>>
               \o SelectSeq(F[i - 1], LAMBDA y : R[y].endTime > R[seated[i]].endTime)
  IN F[Len(seated)]

\* getEstimatedWaitTime, mutated: the latest end time is taken.
getEstimatedWaitTime_LatestEnd(S, ticks, partySize) ==
  LET seatedReservations == SeatedByEndTime(S, partySize)
      endTime == S.reservations[seatedReservations[Len(seatedReservations)]].endTime
      waitMinutes ==
        Max(0, Ceil(endTime * ClockTicksPerMinute - ticks, ClockTicksPerMinute))
  IN IF Len(findAvailableForPartySize(S.tables, partySize)) > 0
     THEN Success([minutes |-> 0, message |-> "Tables available now!"])
     ELSE IF Len(seatedReservations) = 0
     THEN Success([minutes |-> -1, message |-> "Unable to estimate wait time"])
     ELSE Success([minutes |-> waitMinutes,
                   message |-> IF waitMinutes <= 15 THEN "Short wait expected"
                               ELSE "Estimated wait"])

\* `ticks' is the clock's reading, in ticks.
getEstimatedWaitTime(S, ticks, partySize) ==
  LET availableTables == findAvailableForPartySize(S.tables, partySize)
      seatedReservations == SeatedByEndTime(S, partySize)
      nextAvailable == seatedReservations[1]
      endTime == S.reservations[nextAvailable].endTime
      waitMinutes ==
        Max(0, Ceil(endTime * ClockTicksPerMinute - ticks, ClockTicksPerMinute))
  IN IF Len(availableTables) > 0
     THEN Success([minutes |-> 0, message |-> "Tables available now!"])
     ELSE IF Len(seatedReservations) = 0
     THEN Success([minutes |-> -1, message |-> "Unable to estimate wait time"])
     ELSE Success([minutes |-> waitMinutes,
                   message |-> IF waitMinutes <= 15 THEN "Short wait expected"
                               ELSE "Estimated wait"])

\* ------------------------------------------------------------------------
\* Availability queries on a filled store
\* ------------------------------------------------------------------------
\* The stores are exported objects; callers and the tests fill them through
\* create and update.  MaxStoredReservations bounds the reservations on
\* record when a query arrives.
MaxStoredReservations == 2

\* Capacities of the ten tables of initializeSampleData, in creation order,
\* and of a floor whose larger table was created first.
SeedCapacities == <<2, 2, 2, 2, 4, 4, 4, 6, 6, 6>>
QueryCapacities == <<4, 2>>

OpensAt == OPERATING_HOURS_START * MinutesPerHour

\* The sample floor, all free, and the two-table floor with each table free
\* or occupied and the larger one possibly out of service.
QueryTables ==
  {[t \in 1..Len(SeedCapacities) |->
      [capacity |-> SeedCapacities[t], status |-> "AVAILABLE"]]}
    \cup {[t \in 1..Len(QueryCapacities) |->
             [capacity |-> QueryCapacities[t], status |-> st[t]]] :
          st \in {f \in [1..Len(QueryCapacities) ->
                           {"AVAILABLE", "OCCUPIED", "OUT_OF_SERVICE"}] :
                    \A t \in 2..Len(QueryCapacities) : f[t] # "OUT_OF_SERVICE"}}

\* Intervals of the stored reservations: one ending when the second slot of
\* the day starts, one starting then, and one lasting beyond every search.
EarlyWindow ==
  <<OpensAt - 2 * SLOT_DURATION_MINUTES, OpensAt + SLOT_DURATION_MINUTES>>

SlotWindow ==
  <<OpensAt + SLOT_DURATION_MINUTES,
    OpensAt + SLOT_DURATION_MINUTES + DEFAULT_DURATION_MINUTES>>

LongWindow == <<OpensAt - 2 * SLOT_DURATION_MINUTES, OpensAt + 2 * MinutesPerDay>>

StoredReservation(tableId, window, status) ==
  [customerId |-> 1, tableId |-> tableId, waiterId |-> Undefined,
   startTime |-> window[1], endTime |-> window[2], status |-> status,
   isWalkIn |-> FALSE, version |-> 1]

QueryReservationRecords ==
  {StoredReservation(t, SlotWindow, st) :
     t \in 1..Len(QueryCapacities), st \in {"CONFIRMED", "SEATED", "CANCELLED"}}
    \cup {StoredReservation(t, EarlyWindow, st) :
            t \in 1..Len(QueryCapacities), st \in {"CONFIRMED", "SEATED"}}
    \cup {StoredReservation(t, LongWindow, "CONFIRMED") :
            t \in 1..Len(QueryCapacities)}

QueryReservations ==
  UNION {[1..n -> QueryReservationRecords] : n \in 0..MaxStoredReservations}

\* The clock when the query arrives: exactly at the second slot of the day
\* and a minute later.
QueryClock == {OpensAt + SLOT_DURATION_MINUTES, OpensAt + SLOT_DURATION_MINUTES + 1}

InitQuery ==
  /\ locks = EmptyMap
  /\ wl = [p \in WithLockCalls |-> NewCall]
  /\ grants = {}
  /\ ret = [op |-> "init"]
  /\ now \in QueryClock
  /\ tables \in QueryTables
  /\ reservations \in
       IF Len(tables) = Len(QueryCapacities) THEN QueryReservations ELSE {<<>>}
  /\ waiters = [w \in WaiterIds |->
                  [status |-> "AVAILABLE", assignedTables |-> <<>>]]
  /\ customers = <<>>
  /\ timers = [t \in TableIds |-> 0]
  /\ InitCalls

\* One query is asked of each store.
NotAsked == ret.op = "init" /\ search.pc = "idle"

QueryPartySizes == {2, 4}
QueryStarts == {OpensAt, OpensAt + SLOT_DURATION_MINUTES}

FindAvailableTablesCall(startTime, endTime, partySize, excludeReservationId) ==
  /\ NotAsked
  /\ ret' = [op |-> "findAvailableTables", startTime |-> startTime,
             endTime |-> endTime, partySize |-> partySize,
             excludeReservationId |-> excludeReservationId,
             tables |-> findAvailableTables(Stores, startTime, endTime, partySize,
                                            excludeReservationId)]
  /\ UNCHANGED <<now, lockVars, storeVars, callVars>>

BaseAvailabilityRequest ==
  [partySize |-> 4,
   startTime |-> [instant |-> OpensAt + SLOT_DURATION_MINUTES, text |-> "Z"],
   timezone |-> "", durationMinutes |-> Undefined]

AvailabilityRequests ==
  {BaseAvailabilityRequest,
   [BaseAvailabilityRequest EXCEPT !.partySize = 2],
   [BaseAvailabilityRequest EXCEPT !.partySize = 0],
   [BaseAvailabilityRequest EXCEPT !.partySize = 21],
   [BaseAvailabilityRequest EXCEPT !.timezone = "America/New_York"],
   [BaseAvailabilityRequest EXCEPT !.timezone = "Invalid/Timezone"],
   [BaseAvailabilityRequest EXCEPT !.startTime.instant = OpensAt,
                                   !.durationMinutes = SLOT_DURATION_MINUTES]}

CheckAvailabilityCall(request) ==
  /\ NotAsked
  /\ ret' = [op |-> "checkAvailability", request |-> request,
             result |-> checkAvailability(Stores, request)]
  /\ UNCHANGED <<now, lockVars, storeVars, callVars>>

GetEstimatedWaitTimeCall(partySize, sub) ==
  /\ NotAsked
  /\ LET ticks == now * ClockTicksPerMinute + sub
     IN ret' = [op |-> "getEstimatedWaitTime", partySize |-> partySize,
                ticks |-> ticks,
                result |-> getEstimatedWaitTime(Stores, ticks, partySize)]
  /\ UNCHANGED <<now, lockVars, storeVars, callVars>>

\* date, partySize, timezone of the calls of getAvailableSlots: a day that
\* has begun, the next day, the next day by UTC that is still this day in
\* New York, and the rejected inputs.
SlotQueries ==
  ({<<OpensAt + SLOT_DURATION_MINUTES, "UTC">>,
    <<MinutesPerDay + 2 * MinutesPerHour, "UTC">>,
    <<MinutesPerDay + 2 * MinutesPerHour, "America/New_York">>}
     \X QueryPartySizes)
    \cup {<<<<OpensAt, "UTC">>, 0>>, <<<<OpensAt, "UTC">>, 21>>,
          <<<<OpensAt, "Invalid/Timezone">>, 2>>}

GetAvailableSlotsCall(date, partySize, timezone, durationMinutes) ==
  /\ NotAsked
  /\ ret' = [op |-> "getAvailableSlots", date |-> date, partySize |-> partySize,
             timezone |-> timezone, durationMinutes |-> durationMinutes,
             result |-> getAvailableSlots(Stores, now, date, partySize, timezone,
                                          durationMinutes)]
  /\ UNCHANGED <<now, lockVars, storeVars, callVars>>

\* getNextAvailableSlot is synchronous: nothing runs between its
\* iterations.  It is cut at the loop head to follow the search.
GetNextAvailableSlotCall(partySize, fromTime, durationMinutes) ==
  /\ NotAsked
  /\ LET e == getNextAvailableSlotEntry(Stores, partySize, fromTime, durationMinutes)
     IN /\ search' = e.search
        /\ ret' = IF e.search.pc = "done"
                  THEN [op |-> "getNextAvailableSlot", result |-> e.result]
                  ELSE ret
  /\ UNCHANGED <<now, lockVars, storeVars, cr, wi, multi>>

GetNextAvailableSlotIterate ==
  /\ search.pc = "loop"
  /\ LET e == getNextAvailableSlotIteration(Stores, search)
     IN /\ search' = e.search
        /\ ret' = IF e.search.pc = "done"
                  THEN [op |-> "getNextAvailableSlot", result |-> e.result]
                  ELSE ret
  /\ UNCHANGED <<now, lockVars, storeVars, cr, wi, multi>>

DoTimeRangesOverlapCall(start1, end1, start2, end2) ==
  /\ NotAsked
  /\ ret' = [op |-> "doTimeRangesOverlap", start1 |-> start1, end1 |-> end1,
             start2 |-> start2, end2 |-> end2,
             overlap |-> doTimeRangesOverlap(start1, end1, start2, end2)]
  /\ UNCHANGED <<now, lockVars, storeVars, callVars>>

\* Requests for the slot that starts when the stored window of the second
\* slot ends.
FollowingCreateRequests ==
  {[customerName |-> "John Doe", partySize |-> n,
    startTime |-> [instant |-> OpensAt + SLOT_DURATION_MINUTES
                                 + DEFAULT_DURATION_MINUTES, text |-> "Z"],
    timezone |-> "UTC", durationMinutes |-> Undefined,
    preferredTableId |-> Undefined, customerPhone |-> "555-1234"] :
     n \in QueryPartySizes}

NextQuery ==
  \/ \E startTime \in QueryStarts, partySize \in QueryPartySizes,
        excludeReservationId \in {Undefined, 1} :
       FindAvailableTablesCall(startTime,
                               addMinutes(startTime, DEFAULT_DURATION_MINUTES),
                               partySize, excludeReservationId)
  \/ \E request \in AvailabilityRequests : CheckAvailabilityCall(request)
  \/ \E partySize \in QueryPartySizes, sub \in 0..(ClockTicksPerMinute - 1) :
       GetEstimatedWaitTimeCall(partySize, sub)
  \/ \E q \in SlotQueries :
       GetAvailableSlotsCall(q[1][1], q[2], q[1][2], DEFAULT_DURATION_MINUTES)
  \/ \E partySize \in QueryPartySizes :
       GetNextAvailableSlotCall(partySize, now, DEFAULT_DURATION_MINUTES)
  \/ GetNextAvailableSlotIterate
  \/ \E r1, r2 \in 1..Len(reservations) :
       DoTimeRangesOverlapCall(reservations[r1].startTime, reservations[r1].endTime,
                               reservations[r2].startTime, reservations[r2].endTime)
  \/ \E request \in FollowingCreateRequests :
       NotAsked /\ CreateReservationStart(1, request)
  \/ CreateReservationSettle(1)

\* A synchronous function runs on: the loop of getNextAvailableSlot takes
\* its next iteration.
SpecQuery == InitQuery /\ [][NextQuery]_vars /\ WF_vars(GetNextAvailableSlotIterate)

\* doTimeRangesOverlap alone, on every pair of intervals over a few instants.
OverlapInstants ==
  {OpensAt, OpensAt + SLOT_DURATION_MINUTES, OpensAt + 2 * SLOT_DURATION_MINUTES,
   OpensAt + DEFAULT_DURATION_MINUTES}

NextOverlap ==
  \E start1, end1, start2, end2 \in OverlapInstants :
    /\ ret.op = "init"
    /\ DoTimeRangesOverlapCall(start1, end1, start2, end2)

SpecOverlap == Init /\ [][NextOverlap]_vars

\* ------------------------------------------------------------------------
\* Claims on the availability queries
\* ------------------------------------------------------------------------
\* The tables that can take a party for [startTime, endTime): large enough,
\* in service, and without an active reservation, other than the excluded
\* one, whose interval meets the window.
FreeTables(startTime, endTime, partySize, excludeReservationId) ==
  {t \in 1..Len(tables) :
     /\ tables[t].capacity >= partySize
     /\ tables[t].status # "OUT_OF_SERVICE"
     /\ ~\E r \in 1..Len(reservations) :
           /\ r # excludeReservationId
           /\ reservations[r].tableId = t
           /\ reservations[r].status \notin {"CANCELLED", "COMPLETED", "NO_SHOW"}
           /\ reservations[r].startTime < endTime
           /\ startTime < reservations[r].endTime}

\* A list of table ids without repetition, in ascending capacity order.
AscendingCapacity(ts) ==
  \A i, j \in 1..Len(ts) :
    i < j => ts[i] # ts[j] /\ tables[ts[i]].capacity <= tables[ts[j]].capacity

\* The table ids of a list of slots, in the order of the list.
SlotTables(slots) == [i \in 1..Len(slots) |-> slots[i].tableId]

\* C21: findAvailableTables(start, end, partySize, excludeId) returns exactly
\* the tables with capacity >= partySize and status other than
\* OUT_OF_SERVICE that have no reservation, other than excludeId, with a
\* status outside {CANCELLED, COMPLETED, NO_SHOW} whose interval overlaps
\* [start, end), in ascending capacity order; checkAvailability, when it
\* answers, returns one slot marked available per such table for the
\* request's window, in the same order.
AvailableTablesExactAndAscending ==
  /\ ret.op = "findAvailableTables" =>
       /\ Range(ret.tables) =
            FreeTables(ret.startTime, ret.endTime, ret.partySize,
                       ret.excludeReservationId)
       /\ AscendingCapacity(ret.tables)
  /\ (ret.op = "checkAvailability" /\ ret.result.success) =>
       LET startTime == ret.request.startTime.instant
           endTime == startTime + Duration(ret.request)
           slots == ret.result.data
       IN /\ Range(SlotTables(slots)) =
               FreeTables(startTime, endTime, ret.request.partySize, Undefined)
          /\ AscendingCapacity(SlotTables(slots))
          /\ SlotTables(slots) =
               findAvailableTables(Stores, startTime, endTime,
                                   ret.request.partySize, Undefined)
          /\ \A i \in 1..Len(slots) :
               /\ slots[i].isAvailable
               /\ slots[i].tableCapacity = tables[slots[i].tableId].capacity
               /\ slots[i].startTime = ret.request.startTime
               /\ slots[i].endTime = endTime

\* With the ten sample tables all free, a party of four is offered the
\* three tables of capacity 4 and then the three of capacity 6.
SampleFloorOffersFoursThenSixes ==
  /\ ret.op = "checkAvailability"
  /\ ret.request.partySize = 4
  /\ [t \in 1..Len(tables) |-> tables[t].capacity] = SeedCapacities
  /\ \A t \in 1..Len(tables) : tables[t].status = "AVAILABLE"
  /\ ret.result.success
  /\ SlotTables(ret.result.data) = <<5, 6, 7, 8, 9, 10>>


\* C22: checkAvailability validates the timezone and the party-size bounds:
\* a request with an invalid timezone or with partySize outside [1, 20]
\* returns a failure and no list of slots.
CheckAvailabilityRejectsBadInput ==
  (/\ ret.op = "checkAvailability"
   /\ \/ (ret.request.timezone # "" /\ ~isValidTimezone(ret.request.timezone))
      \/ ret.request.partySize < 1
      \/ ret.request.partySize > 20)
    => ~ret.result.success


\* End times of the SEATED reservations that sit on a table of capacity
\* >= partySize.
SeatedEndTimes(partySize) ==
  {reservations[r].endTime :
     r \in {x \in 1..Len(reservations) :
              /\ reservations[x].status = "SEATED"
              /\ reservations[x].tableId \in 1..Len(tables)
              /\ tables[reservations[x].tableId].capacity >= partySize}}

\* C23: getEstimatedWaitTime(partySize) returns 0 minutes if a table with
\* capacity >= partySize is AVAILABLE; otherwise, if a SEATED reservation
\* sits on a table with capacity >= partySize, the least whole number of
\* minutes, not below 0, that reaches the earliest end time among those
\* reservations; otherwise a result that is no number of minutes (-1), so
\* that it differs from every wait, 0 included.
WaitTimeZeroEarliestEndOrUnknown ==
  ret.op = "getEstimatedWaitTime" =>
    LET partySize == ret.partySize
        minutes == ret.result.data.minutes
        ends == SeatedEndTimes(partySize)
        earliest == CHOOSE e \in ends : \A f \in ends : e <= f
        due == earliest * ClockTicksPerMinute - ret.ticks
    IN /\ ret.result.success
       /\ IF \E t \in 1..Len(tables) : /\ tables[t].capacity >= partySize
                                       /\ tables[t].status = "AVAILABLE"
          THEN minutes = 0
          ELSE IF ends # {}
          THEN /\ minutes >= 0
               /\ minutes * ClockTicksPerMinute >= due
               /\ minutes > 0 => (minutes - 1) * ClockTicksPerMinute < due
          ELSE minutes = -1 /\ minutes \notin Nat

\* With no table free and the clock between two whole minutes, the wait
\* is the time until the earliest seated party is due to leave, rounded up.
FractionOfAMinuteRoundsUp ==
  /\ ret.op = "getEstimatedWaitTime"
  /\ ~\E t \in 1..Len(tables) : /\ tables[t].capacity >= ret.partySize
                                /\ tables[t].status = "AVAILABLE"
  /\ SeatedEndTimes(ret.partySize) # {}
  /\ ret.ticks % ClockTicksPerMinute # 0
  /\ \E e \in SeatedEndTimes(ret.partySize) :
       /\ \A f \in SeatedEndTimes(ret.partySize) : e <= f
       /\ ret.result.data.minutes = e - now
       /\ e > now

\* The instants getNextAvailableSlot may probe: fromTime and every
\* SLOT_DURATION_MINUTES after it, before fromTime + 24 h.
ProbeInstants(fromTime) ==
  {i \in fromTime..(fromTime + maxSearchHours * MinutesPerHour - 1) :
     (i - fromTime) % SLOT_DURATION_MINUTES = 0}

\* The probe instants of the running or finished search at which some
\* table can take the party.
FreeProbeInstants ==
  {i \in ProbeInstants(search.fromTime) :
     FreeTables(i, i + search.durationMinutes, search.partySize, Undefined) # {}}

\* C24: getNextAvailableSlot(partySize, from, duration) probes from and then
\* from + k * 30 minutes for increasing k while the instant is before
\* from + 24 h; it returns the slot at the earliest probed instant at which
\* some table with capacity >= partySize and status other than
\* OUT_OF_SERVICE has no overlapping active reservation for
\* [instant, instant + duration), and null exactly when no probed instant
\* has such a table.
NextSlotIsEarliestFreeProbe ==
  /\ search.pc = "loop" =>
       search.checkTime = search.fromTime + search.probes * SLOT_DURATION_MINUTES
  /\ search.pc = "done" =>
       LET slot == ret.result.data
       IN /\ ret.op = "getNextAvailableSlot"
          /\ ret.result.success
          /\ (slot = NoSlot) <=> (FreeProbeInstants = {})
          /\ slot # NoSlot =>
               /\ slot.startTime \in FreeProbeInstants
               /\ \A i \in FreeProbeInstants : slot.startTime <= i
               /\ slot.endTime = slot.startTime + search.durationMinutes
               /\ slot.tableId \in
                    FreeTables(slot.startTime, slot.endTime, search.partySize,
                               Undefined)
               /\ slot.isAvailable

\* Every table large enough is taken at fromTime and at the next probes;
\* the search returns the first later slot that is free.
NextSlotFoundAtLaterProbe ==
  /\ search.pc = "done"
  /\ ret.op = "getNextAvailableSlot"
  /\ ret.result.data # NoSlot
  /\ search.probes > 2
  /\ ret.result.data.startTime =
       search.fromTime + (search.probes - 1) * SLOT_DURATION_MINUTES

\* Iterations of the search loop at most: 24 h of 30-minute steps.
MaxProbes == (maxSearchHours * MinutesPerHour) \div SLOT_DURATION_MINUTES

\* C25: getNextAvailableSlot always terminates: the probe instant grows by
\* 30 minutes with every iteration, the probes are at most those between
\* from and from + 24 h, and a search that has entered its loop returns a
\* slot or null.
NextSlotSearchTerminates ==
  /\ [](search.pc = "loop" =>
          /\ search.probes <= MaxProbes
          /\ search.checkTime <= search.fromTime + maxSearchHours * MinutesPerHour)
  /\ [][(search.pc = "loop" /\ search'.pc = "loop") =>
          /\ search'.checkTime = search.checkTime + SLOT_DURATION_MINUTES
          /\ search'.probes = search.probes + 1
          /\ search'.fromTime = search.fromTime]_vars
  /\ [](search.pc = "loop" =>
          <>(/\ search.pc = "done"
             /\ ret.op = "getNextAvailableSlot"
             /\ ret.result.success))

\* Every table large enough is taken for the whole horizon: the search
\* probes all 48 instants and returns null.
SearchExhaustedReturnsNull ==
  /\ search.pc = "done"
  /\ search.probes = MaxProbes
  /\ SuitableTables(tables, search.partySize) # <<>>
  /\ ret.result.data = NoSlot


\* The slot starts of the operating window of the day `date' falls on in
\* the timezone that are strictly after the clock.
OpenSlotStarts(date, timezone) ==
  LET dayStart == getDayBoundsInTimezone(date, timezone).start
      opens == dayStart + OPERATING_HOURS_START * MinutesPerHour
      closes == dayStart + OPERATING_HOURS_END * MinutesPerHour
  IN {i \in opens..(closes - 1) :
        (i - opens) % SLOT_DURATION_MINUTES = 0 /\ i > now}

\* C26: getAvailableSlots(day, partySize, tz) returns, for every 30-minute
\* slot start in the operating window [11:00, 22:00) of the day that is
\* strictly after now, one entry per table with capacity >= partySize,
\* status other than OUT_OF_SERVICE and no overlapping active reservation
\* for that slot, and nothing else; the entries are ordered by slot start
\* ascending and, within one slot, by table capacity ascending.
SlotGridExactAndCapacityOrdered ==
  (ret.op = "getAvailableSlots" /\ ret.result.success) =>
    LET slots == ret.result.data
        expected ==
          {<<i, t>> \in (OpenSlotStarts(ret.date, ret.timezone)
                           \X (1..Len(tables))) :
             t \in FreeTables(i, i + ret.durationMinutes, ret.partySize,
                              Undefined)}
    IN /\ {<<slots[k].startTime, slots[k].tableId>> : k \in 1..Len(slots)} = expected
       /\ Len(slots) = Cardinality(expected)
       /\ \A j, k \in 1..Len(slots) :
            j < k =>
              \/ slots[j].startTime < slots[k].startTime
              \/ /\ slots[j].startTime = slots[k].startTime
                 /\ slots[j].tableCapacity <= slots[k].tableCapacity


\* C27: doTimeRangesOverlap is symmetric: for all instants aStart, aEnd,
\* bStart, bEnd the answer for (aStart, aEnd, bStart, bEnd) is the answer
\* for (bStart, bEnd, aStart, aEnd).
OverlapSymmetric ==
  /\ ret.op = "doTimeRangesOverlap" =>
       ret.overlap = doTimeRangesOverlap(ret.start2, ret.end2, ret.start1, ret.end1)
  /\ \A aStart, aEnd, bStart, bEnd \in OverlapInstants :
       doTimeRangesOverlap(aStart, aEnd, bStart, bEnd)
         = doTimeRangesOverlap(bStart, bEnd, aStart, aEnd)

\* Two different intervals that overlap, asked in one order.
DistinctIntervalsOverlap ==
  /\ ret.op = "doTimeRangesOverlap"
  /\ ret.overlap
  /\ ret.start1 < ret.start2
  /\ ret.end1 < ret.end2

\* The windows a caller asks about: those of the create requests.
AskedWindows ==
  {<<r.startTime.instant, r.startTime.instant + Duration(r)>> :
     r \in FollowingCreateRequests}
    \cup {<<s, s + DEFAULT_DURATION_MINUTES>> : s \in QueryStarts}

\* C28: overlap is half-open (aStart < bEnd and bStart < aEnd): two
\* intervals of which one ends exactly when the other starts never overlap,
\* in doTimeRangesOverlap and in the store's findByTimeRange that the
\* eligibility scan uses, so that a table with a reservation ending at the
\* requested start is still eligible and is booked back-to-back.
AdjacentIntervalsNeverOverlap ==
  /\ ret.op = "doTimeRangesOverlap" =>
       /\ ret.overlap <=> (ret.start1 < ret.end2 /\ ret.start2 < ret.end1)
       /\ (ret.end1 = ret.start2 \/ ret.end2 = ret.start1) => ~ret.overlap
  /\ \A w \in AskedWindows :
       LET found == findByTimeRange(reservations, w[1], w[2])
       IN \A r \in 1..Len(reservations) :
            /\ r \in Range(found) <=>
                 (reservations[r].startTime < w[2] /\ w[1] < reservations[r].endTime)
            /\ (reservations[r].endTime = w[1] \/ reservations[r].startTime = w[2])
                 => /\ r \notin Range(found)
                    /\ ~doTimeRangesOverlap(reservations[r].startTime,
                                            reservations[r].endTime, w[1], w[2])
  /\ \A request \in FollowingCreateRequests :
       LET startTime == request.startTime.instant
           endTime == startTime + Duration(request)
           touching ==
             {t \in 1..Len(tables) :
                /\ tables[t].capacity >= request.partySize
                /\ tables[t].status # "OUT_OF_SERVICE"
                /\ \A r \in 1..Len(reservations) :
                     (reservations[r].tableId = t /\ ActiveStatus(reservations[r].status))
                       => \/ reservations[r].endTime <= startTime
                          \/ reservations[r].startTime >= endTime}
           body == createReservationBody(Stores, request)
       IN touching # {} =>
            /\ touching = Range(findAvailableTables(Stores, startTime, endTime,
                                                    request.partySize, Undefined))
            /\ body.outcome.kind = "return"
            /\ body.stores.reservations[body.outcome.value].tableId \in touching

\* A reservation is confirmed on a table whose earlier active reservation
\* ends at the minute the new one starts.
BookedBackToBack ==
  /\ ret.op = "createReservation"
  /\ ret.result.success
  /\ LET new == reservations[ret.result.data]
     IN /\ new.status = "CONFIRMED"
        /\ \E r \in 1..Len(reservations) :
             /\ reservations[r].tableId = new.tableId
             /\ ActiveStatus(reservations[r].status)
             /\ reservations[r].endTime = new.startTime


\* ------------------------------------------------------------------------
\* Claims on the reservation records
\* ------------------------------------------------------------------------
\* C29: the orchestrator never deletes a reservation: across createReservation,
\* updateReservationStatus, cancelReservation and handleWalkIn the stored
\* reservation ids only grow in number, every stored reservation stays the
\* record of the same customer, table and interval, and a cancelled
\* reservation stays retrievable with status CANCELLED.
ReservationsNeverDeleted ==
  /\ [](\A id \in 1..Len(reservations), expectedVersion \in PresentableVersions :
          LET r == cancelReservation(Stores, timers, id, expectedVersion)
          IN /\ Len(r.stores.reservations) = Len(reservations)
             /\ r.code = "" =>
                  /\ getById(r.stores.reservations, id)
                  /\ r.stores.reservations[id].status = "CANCELLED")
  /\ [][/\ Len(reservations') >= Len(reservations)
        /\ \A id \in 1..Len(reservations) :
             /\ getById(reservations', id)
             /\ reservations'[id].customerId = reservations[id].customerId
             /\ reservations'[id].tableId = reservations[id].tableId
             /\ reservations'[id].startTime = reservations[id].startTime
             /\ reservations'[id].endTime = reservations[id].endTime
             /\ reservations[id].status = "CANCELLED"
                  => reservations'[id].status = "CANCELLED"]_vars

\* A reservation was cancelled and another was created after it: the
\* cancelled one is still stored, as CANCELLED.
CancelledReservationStillStored ==
  /\ Len(reservations) > 1
  /\ reservations[1].status = "CANCELLED"
  /\ reservations[1].version > 1
  /\ ret.op = "createReservation"
  /\ ret.result.success


\* C30: when createReservation is given a preferredTableId that names an
\* existing table, that table is selected exactly when it is eligible for
\* the window and the party size; when it is not, the call falls back to
\* the smallest eligible table instead of failing; a reservation is never
\* confirmed on a table that was not eligible for its window.
PreferredTableOnlyWhenEligible ==
  /\ [](\A request \in AdmittedCreateRequests :
         LET preferred == request.preferredTableId
             eligible == EligibleTables(request)
             body == createReservationBody(Stores, request)
             new == body.stores.reservations[Len(reservations) + 1]
         IN (preferred # Undefined /\ getById(tables, preferred)) =>
              /\ preferred \in eligible =>
                   /\ body.outcome.kind = "return"
                   /\ new.tableId = preferred
              /\ (preferred \notin eligible /\ eligible # {}) =>
                   /\ body.outcome.kind = "return"
                   /\ new.tableId \in eligible
                   /\ tables[new.tableId].capacity = MinCapacity(eligible)
                   /\ new.status = "CONFIRMED"
              /\ eligible = {} =>
                   body.outcome = [kind |-> "throw", value |-> "NO_AVAILABILITY"])
  /\ [][\A c \in CreateCalls :
          (/\ cr[c].pc = "new"
           /\ cr'[c].pc = "await"
           /\ cr'[c].outcome.kind = "return")
            => LET new == reservations'[Len(reservations')]
               IN /\ new.status = "CONFIRMED"
                  /\ tables[new.tableId].status # "OUT_OF_SERVICE"
                  /\ \A i \in 1..Len(reservations) :
                       ~(/\ reservations[i].tableId = new.tableId
                         /\ ActiveStatus(reservations[i].status)
                         /\ reservations[i].startTime < new.endTime
                         /\ new.startTime < reservations[i].endTime)]_vars

\* The preferred table of an admitted request is taken for the window and
\* a smaller table is free: the critical section confirms the reservation
\* on the free table.
PreferredTableTakenFallsBack ==
  \E request \in AdmittedCreateRequests :
    LET body == createReservationBody(Stores, request)
    IN /\ request.preferredTableId # Undefined
       /\ getById(tables, request.preferredTableId)
       /\ request.preferredTableId \notin EligibleTables(request)
       /\ \E i \in 1..Len(reservations) :
            /\ reservations[i].tableId = request.preferredTableId
            /\ reservations[i].status = "CONFIRMED"
       /\ body.outcome.kind = "return"
       /\ body.stores.reservations[body.outcome.value].tableId
            # request.preferredTableId
       /\ body.stores.reservations[body.outcome.value].tableId
            \in EligibleTables(request)

\* ------------------------------------------------------------------------
\* Waiter store on an arbitrary roster
\* ------------------------------------------------------------------------
WaiterStatuses == {"AVAILABLE", "BUSY", "ON_BREAK", "OFF_DUTY"}

unassignTable(W, waiterId, tableId) ==
  IF ~getById(W, waiterId) THEN W
  ELSE LET newTables == SelectSeq(W[waiterId].assignedTables,
                                  LAMBDA t : t # tableId)
       IN [W EXCEPT ![waiterId] =
             [status |-> IF Len(newTables) = 0 THEN "AVAILABLE" ELSE "BUSY",
              assignedTables |-> newTables]]

\* Waiter records a client of the exported store can create: any status with
\* no table, one table or two tables.
WaiterRecords ==
  [status : WaiterStatuses, assignedTables : {<<>>, <<1>>, <<1, 2>>}]

\* Rosters of zero to NumWaiters waiters, in creation order.
WaiterRosters ==
  UNION {[1..n -> WaiterRecords] : n \in 0..NumWaiters}

InitWaiter ==
  /\ InitLocks
  /\ InitCalls
  /\ tables = [t \in TableIds |->
                 [capacity |-> SampleCapacities[t], status |-> "AVAILABLE"]]
  /\ waiters \in WaiterRosters
  /\ customers = <<>>
  /\ reservations = <<>>
  /\ timers = [t \in TableIds |-> 0]

\* The waiter ids a client can name: the stored ones and one that is not.
KnownWaiterIds == 1..(Len(waiters) + 1)

AssignTableCall(waiterId, tableId) ==
  /\ NotAsked
  /\ waiters' = assignTable(waiters, waiterId, tableId)
  /\ ret' = [op |-> "assignTable", waiterId |-> waiterId, tableId |-> tableId,
             found |-> getById(waiters, waiterId)]
  /\ UNCHANGED <<locks, now, wl, grants, tables, customers, reservations,
                 timers, callVars>>

UnassignTableCall(waiterId, tableId) ==
  /\ NotAsked
  /\ waiters' = unassignTable(waiters, waiterId, tableId)
  /\ ret' = [op |-> "unassignTable", waiterId |-> waiterId, tableId |-> tableId,
             found |-> getById(waiters, waiterId)]
  /\ UNCHANGED <<locks, now, wl, grants, tables, customers, reservations,
                 timers, callVars>>

\* One direct call on the waiter store, then reservations and walk-ins on
\* the roster it leaves.
NextWaiter ==
  \/ \E waiterId \in KnownWaiterIds, tableId \in TableIds :
       AssignTableCall(waiterId, tableId)
  \/ \E waiterId \in KnownWaiterIds, tableId \in TableIds :
       UnassignTableCall(waiterId, tableId)
  \/ \E request \in ValidCreateRequests : CreateReservationStart(1, request)
  \/ CreateReservationSettle(1)
  \/ \E request \in WalkInRequests : HandleWalkInStart(1, request)
  \/ HandleWalkInSettle(1)

SpecWaiter == InitWaiter /\ [][NextWaiter]_vars

\* ------------------------------------------------------------------------
\* Waiter assignment
\* ------------------------------------------------------------------------
\* Waiters of roster W in the given status, and those of them that no other
\* waiter of the status undercuts in assigned tables.
WaitersIn(W, status) == {w \in 1..Len(W) : W[w].status = status}

LeastLoaded(W, status) ==
  {w \in WaitersIn(W, status) :
     \A v \in WaitersIn(W, status) :
       Len(W[w].assignedTables) <= Len(W[v].assignedTables)}

\* C31: the waiter of a reservation stored by createReservation or
\* handleWalkIn is a least-loaded AVAILABLE waiter of the roster the call
\* found when there is an AVAILABLE waiter, otherwise a least-loaded BUSY
\* waiter, and no waiter at all when nobody is AVAILABLE or BUSY (so never
\* one ON_BREAK or OFF_DUTY); the chosen waiter then holds the table; and
\* whether the reservation is stored does not depend on the roster.
LeastLoadedWaiterAssigned ==
  /\ [](\A request \in ValidCreateRequests :
          createReservationBody(Stores, request).outcome =
            createReservationBody([Stores EXCEPT !.waiters = <<>>],
                                  request).outcome)
  /\ [](\A request \in WalkInRequests :
          handleWalkInBody(Stores, now, request).outcome =
            handleWalkInBody([Stores EXCEPT !.waiters = <<>>], now,
                             request).outcome)
  /\ [][Len(reservations') = Len(reservations) + 1 =>
          LET r == reservations'[Len(reservations')]
          IN /\ ret'.op \in {"createReservationStart", "handleWalkInStart"}
             /\ IF WaitersIn(waiters, "AVAILABLE") # {}
                THEN r.waiterId \in LeastLoaded(waiters, "AVAILABLE")
                ELSE IF WaitersIn(waiters, "BUSY") # {}
                THEN r.waiterId \in LeastLoaded(waiters, "BUSY")
                ELSE r.waiterId = Undefined
             /\ r.waiterId # Undefined =>
                  /\ r.tableId \in Range(waiters'[r.waiterId].assignedTables)
                  /\ waiters[r.waiterId].status \notin {"ON_BREAK", "OFF_DUTY"}
             /\ r.waiterId = Undefined => waiters' = waiters]_vars

\* A reservation went to the second waiter, BUSY with fewer tables than the
\* first, while nobody was AVAILABLE.
BusyWaiterTakenWhenNoneAvailable ==
  /\ ret.op = "createReservationStart"
  /\ reservations # <<>>
  /\ Len(waiters) = 2
  /\ reservations[Len(reservations)].waiterId = 2
  /\ waiters[1].status = "BUSY"
  /\ waiters[2].status = "BUSY"
  /\ Len(waiters[1].assignedTables) = 2
  /\ Len(waiters[2].assignedTables) <= 2


\* C32: after assignTable or unassignTable on a stored waiter, whatever its
\* status before, the waiter is AVAILABLE when its assigned tables are
\* empty and BUSY when they are not.
StatusFollowsAssignedTables ==
  (ret.op \in {"assignTable", "unassignTable"} /\ ret.found) =>
     waiters[ret.waiterId].status =
       IF waiters[ret.waiterId].assignedTables = <<>> THEN "AVAILABLE" ELSE "BUSY"


\* ------------------------------------------------------------------------
\* isLocked
\* ------------------------------------------------------------------------
\* C33: isLocked answers true exactly when the lock map holds an entry for
\* the key that expires strictly after now; an expired entry is removed
\* before the answer false; a valid entry, and every entry of another key,
\* is left as it was, and no entry is added.
IsLockedTrueIffValidEvictsExpired ==
  [][ret'.op = "isLocked" =>
       LET key == ret'.key
           held == key \in DOMAIN locks
           valid == held /\ locks[key].expiresAt > now
       IN /\ ret'.success = valid
          /\ (held /\ ~valid) => key \notin DOMAIN locks'
          /\ \A k \in DOMAIN locks :
               (k # key \/ valid) => (k \in DOMAIN locks' /\ locks'[k] = locks[k])
          /\ DOMAIN locks' \subseteq DOMAIN locks]_vars

\* isLocked was asked at the very instant an entry expired: it answered
\* false and the entry is gone, while another owner's valid entry stays.
ExpiredEntryEvictedByIsLocked ==
  /\ ret.op = "isLocked"
  /\ ~ret.success
  /\ ret.existing # NoEntry
  /\ ret.existing.expiresAt = now
  /\ ret.key \notin DOMAIN locks
  /\ \E k \in DOMAIN locks : locks[k].expiresAt > now


\* ------------------------------------------------------------------------
\* Status updates presenting any version
\* ------------------------------------------------------------------------
WalkInParties == [customerName : {"Walk-in Guest"}, partySize : {2, 4}]

\* One reservation, one walk-in, and status updates that present current,
\* stale and future versions.
NextVersion ==
  \/ \E request \in ValidCreateRequests : CreateReservationStart(1, request)
  \/ CreateReservationSettle(1)
  \/ \E request \in WalkInParties : HandleWalkInStart(1, request)
  \/ HandleWalkInSettle(1)
  \/ \E id \in KnownIds, newStatus \in ReservationStatuses,
        expectedVersion \in PresentableVersions :
       UpdateReservationStatus(id, newStatus, expectedVersion)
  \/ \E tableId \in TableIds : ReleaseTimerFires(tableId)

SpecVersion == Init /\ [][NextVersion]_vars

\* The outcome of two updateReservationStatus calls on reservation id that
\* present the same expectedVersion, one after the other.
TwoUpdates(id, first, second, expectedVersion) ==
  LET r1 == updateReservationStatus(Stores, timers, id, first, expectedVersion)
      r2 == updateReservationStatus(r1.stores, r1.timers, id, second,
                                    expectedVersion)
  IN [first |-> r1, second |-> r2]

\* C34 as stated: of two calls with the same expectedVersion at most one
\* succeeds, the other fails without changing the reservation, and after
\* both the stored version is at most expectedVersion + 1.
SameVersionPairBoundedByExpected ==
  \A id \in 1..Len(reservations), first \in ReservationStatuses,
     second \in ReservationStatuses, expectedVersion \in PresentableVersions :
    LET p == TwoUpdates(id, first, second, expectedVersion)
    IN /\ ~(p.first.code = "" /\ p.second.code = "")
       /\ p.first.code # "" => p.first.stores.reservations = reservations
       /\ p.second.code # "" =>
            p.second.stores.reservations = p.first.stores.reservations
       /\ p.second.stores.reservations[id].version <= expectedVersion + 1

\* C34, amended: of two calls with the same expectedVersion at most one
\* succeeds and the other fails without changing the reservation; the pair
\* raises the stored version by at most one, to expectedVersion + 1 when one
\* of them succeeded; when neither did, the version stays what it was.  Across
\* any other calls in between, a stored version never decreases, so a version
\* once accepted is never accepted again.
SameVersionPairAdvancesOnce ==
  /\ [](\A id \in 1..Len(reservations), first \in ReservationStatuses,
           second \in ReservationStatuses,
           expectedVersion \in PresentableVersions :
          LET p == TwoUpdates(id, first, second, expectedVersion)
              after == p.second.stores.reservations[id].version
          IN /\ ~(p.first.code = "" /\ p.second.code = "")
             /\ p.first.code # "" => p.first.stores.reservations = reservations
             /\ p.second.code # "" =>
                  p.second.stores.reservations = p.first.stores.reservations
             /\ after <= reservations[id].version + 1
             /\ after = IF p.first.code = "" \/ p.second.code = ""
                        THEN expectedVersion + 1
                        ELSE reservations[id].version)
  /\ [][\A id \in 1..Len(reservations) :
          /\ reservations'[id].version >= reservations[id].version
          /\ (ret'.op = "updateReservationStatus" /\ ret'.code = "") =>
               reservations'[id].version <= reservations[id].version + 1]_vars

\* A reservation was seated with version 1 and stands at version 2: a
\* second call presenting version 1 is refused although the transition it
\* asks for is permitted.
SecondCallWithSameVersionRefused ==
  /\ ret.op = "updateReservationStatus"
  /\ ret.code = "CONCURRENT_MODIFICATION"
  /\ \E id \in 1..Len(reservations) :
       /\ reservations[id].status = "SEATED"
       /\ reservations[id].version = 2
       /\ updateReservationStatus(Stores, timers, id, "COMPLETED", 1).code =
            "CONCURRENT_MODIFICATION"
       /\ updateReservationStatus(Stores, timers, id, "COMPLETED", 2).code = ""


\* ------------------------------------------------------------------------
\* withLock is fail-fast
\* ------------------------------------------------------------------------
\* Calls whose body was invoked, calls whose body ran to its end, and calls
\* that reported success.
BodiesInvoked == {p \in WithLockCalls : wl[p].lockedAt # -1}
BodiesCompleted == {p \in WithLockCalls : wl[p].outcome.kind = "return"}
CallsSucceeded == {p \in WithLockCalls : wl[p].pc = "done" /\ wl[p].result.success}

SeatedTableIsOccupied ==
  \A i \in 1..Len(reservations) :
    (reservations[i].status = "SEATED" /\ reservations[i].tableId # Undefined) =>
       tables[reservations[i].tableId].status = "OCCUPIED"


\* ------------------------------------------------------------------------
\* Re-entrant acquisition
\* ------------------------------------------------------------------------
\* MaxReacquire: how many times in a row an owner acquires one key.
MaxReacquire == 3

\* n successive acquireLock calls by lockOwner on key, at time t.
RECURSIVE Reacquire(_, _, _, _, _)
Reacquire(L, t, key, lockOwner, n) ==
  IF n = 0 THEN [success |-> TRUE, locks |-> L]
  ELSE LET a == acquireLock(L, t, key, lockOwner, DEFAULT_LOCK_TIMEOUT_MINUTES)
       IN IF ~a.success THEN [success |-> FALSE, locks |-> L]
          ELSE Reacquire(a.locks, t, key, lockOwner, n - 1)

\* C37: acquisitions are not counted.  Wherever owner A can acquire a key,
\* n >= 1 acquisitions in a row all succeed and leave the one entry a single
\* acquisition leaves; one releaseLock by A then removes it and any other
\* owner's acquireLock on the key succeeds at once.  Every release an owner
\* makes of its own entry leaves the key free for the other owners.
SingleReleaseFreesReacquiredKey ==
  /\ [](\A key \in LockResources, A \in Owners, n \in 1..MaxReacquire :
          LET once == acquireLock(locks, now, key, A, DEFAULT_LOCK_TIMEOUT_MINUTES)
              held == Reacquire(locks, now, key, A, n)
              released == releaseLock(held.locks, key, A)
          IN once.success =>
               /\ held.success
               /\ held.locks = once.locks
               /\ released.ok
               /\ key \notin DOMAIN released.locks
               /\ \A B \in Owners \ {A} :
                    acquireLock(released.locks, now, key, B,
                                DEFAULT_LOCK_TIMEOUT_MINUTES).success)
  /\ [][(ret'.op = "releaseLock" /\ ret'.existing.lockedBy = ret'.owner) =>
          /\ ret'.success
          /\ ret'.key \notin DOMAIN locks'
          /\ \A B \in Owners \ {ret'.owner} :
               acquireLock(locks', now, ret'.key, B,
                           DEFAULT_LOCK_TIMEOUT_MINUTES).success]_vars

\* An owner has just acquired, a minute later, a key it already held under
\* a valid lock: its one release frees the key for the other owner.
OwnerAcquiredHeldKeyAgain ==
  /\ ret.op = "acquireLock"
  /\ ret.success
  /\ ret.existing.lockedBy = ret.owner
  /\ ret.existing.lockedAt < now
  /\ ret.existing.expiresAt > now
  /\ locks[ret.key].lockedAt = now
  /\ LET released == releaseLock(locks, ret.key, ret.owner)
     IN /\ released.ok
        /\ \A B \in Owners \ {ret.owner} :
             acquireLock(released.locks, now, ret.key, B,
                         DEFAULT_LOCK_TIMEOUT_MINUTES).success


\* ------------------------------------------------------------------------
\* Release after expiry and takeover
\* ------------------------------------------------------------------------
\* Call p's lock on its key expired and call q then acquired the key, which
\* q's entry still holds.
TakenOverBy(p, q) ==
  /\ p # q
  /\ wl[p].lockedAt # -1
  /\ wl[q].lockedAt # -1
  /\ wl[p].key = wl[q].key
  /\ wl[p].expiresAt <= wl[q].lockedAt
  /\ wl[p].key \in DOMAIN locks
  /\ locks[wl[p].key].lockedBy = wl[q].owner

\* C38: when owner A's lock has expired and owner B has acquired the key, a
\* release by A returns false and leaves the lock map as it is, B's entry
\* with B as owner and B's expiry included; so does the release withLock
\* makes on exit for a body that outlived its lock.
LateReleaseLeavesSuccessorLock ==
  /\ [](\A p, q \in WithLockCalls :
          TakenOverBy(p, q) =>
            /\ locks[wl[q].key].expiresAt = wl[q].expiresAt
            /\ releaseLock(locks, wl[p].key, wl[p].owner) =
                 [ok |-> FALSE, locks |-> locks])
  /\ [][\A p, q \in WithLockCalls :
          (TakenOverBy(p, q) /\ wl[p].pc = "settled" /\ wl'[p].pc = "done") =>
            /\ locks' = locks
            /\ locks'[wl[q].key].lockedBy = wl[q].owner
            /\ locks'[wl[q].key].expiresAt = wl[q].expiresAt]_vars

\* A body outlived its lock, a second call took the key, and the first
\* call has exited while the second call's body is still in progress under
\* its own entry.
OutlivedCallExitedUnderSuccessor ==
  \E p, q \in WithLockCalls :
    /\ TakenOverBy(p, q)
    /\ ret.op = "withLock"
    /\ ret.call = p
    /\ wl[p].pc = "done"
    /\ wl[q].pc = "body"
    /\ locks[wl[q].key].expiresAt = wl[q].expiresAt
    /\ locks[wl[q].key].expiresAt > now


\* ------------------------------------------------------------------------
\* acquireMultipleLocks, one acquireLock or releaseLock at a time
\* ------------------------------------------------------------------------
\* acquireMultipleLocks has no await: the program runs a call as one step
\* (AcquireMultipleLocksCall).  Here the calls of two owners are followed at
\* the granularity of the single acquireLock and releaseLock calls they
\* make, so that every order of those calls is covered, the program's own
\* (one owner's call entirely before the other's) included.
MultiStart(owner, resources) ==
  /\ multi[owner].pc = "new"
  /\ multi' = [multi EXCEPT ![owner].pc = "loop",
                            ![owner].sortedResources = SortResources(resources)]
  /\ ret' = [op |-> "multiStart", owner |-> owner]
  /\ UNCHANGED <<lockVars, now, storeVars, cr, wi, search>>

\* One iteration of the for loop: acquireLock on the next resource; the
\* call returns success after the last one, and returns failure at once
\* when the first acquisition is refused.
MultiAcquireStep(owner) ==
  /\ multi[owner].pc = "loop"
  /\ LET m == multi[owner]
         resource == m.sortedResources[Len(m.acquiredLocks) + 1]
         result == acquireLock(locks, now, resource, owner,
                               DEFAULT_LOCK_TIMEOUT_MINUTES)
         acquiredLocks == Append(m.acquiredLocks, resource)
     IN /\ locks' = result.locks
        /\ multi' = [multi EXCEPT ![owner] =
             IF ~result.success
             THEN [m EXCEPT !.pc = IF m.acquiredLocks = <<>> THEN "done"
                                   ELSE "rollback"]
             ELSE IF Len(acquiredLocks) = Len(m.sortedResources)
             THEN [m EXCEPT !.pc = "done", !.acquiredLocks = acquiredLocks,
                            !.success = TRUE]
             ELSE [m EXCEPT !.acquiredLocks = acquiredLocks]]
        /\ ret' = [op |-> "multiAcquire", owner |-> owner, key |-> resource,
                   success |-> result.success]
  /\ UNCHANGED <<now, wl, grants, storeVars, cr, wi, search>>

\* One iteration of the rollback loop: releaseLock on the next acquired
\* lock; the call returns failure after the last one.
MultiRollbackStep(owner) ==
  /\ multi[owner].pc = "rollback"
  /\ LET m == multi[owner]
         lock == m.acquiredLocks[m.released + 1]
     IN /\ locks' = releaseLock(locks, lock, owner).locks
        /\ multi' = [multi EXCEPT ![owner].released = m.released + 1,
                                  ![owner].pc =
                                    IF m.released + 1 = Len(m.acquiredLocks)
                                    THEN "done" ELSE "rollback"]
        /\ ret' = [op |-> "multiRelease", owner |-> owner, key |-> lock,
                   success |-> TRUE]
  /\ UNCHANGED <<now, wl, grants, storeVars, cr, wi, search>>

NextMulti ==
  \/ \E owner \in Owners, resources \in ResourceLists : MultiStart(owner, resources)
  \/ \E owner \in Owners : MultiAcquireStep(owner)
  \/ \E owner \in Owners : MultiRollbackStep(owner)

\* Two owners, an empty lock map, and a clock that stands still: no lock
\* expires.
SpecMulti == Init /\ [][NextMulti]_vars

\* C39: of two acquireMultipleLocks calls by different owners, interleaved
\* in any way at the level of their single acquisitions and releases, with
\* no other lock held and no expiry, at least one succeeds; a call fails
\* only on a key the other call holds at that moment.
OneOfTwoMultiCallsSucceeds ==
  /\ []((\A owner \in Owners : multi[owner].pc = "done") =>
          \E owner \in Owners : multi[owner].success)
  /\ [][\A owner \in Owners :
          (multi[owner].pc = "loop" /\ multi'[owner].pc \in {"rollback", "done"}
             /\ ~multi'[owner].success) =>
            \E other \in Owners \ {owner} :
              /\ multi[other].pc \in {"loop", "done"}
              /\ ~(multi[other].pc = "done" /\ ~multi[other].success)
              /\ ret'.key \in Range(multi[other].acquiredLocks)]_vars

\* Both calls have returned: one owner took a key, then met a key the
\* other owner had taken meanwhile and rolled back, and the other owner
\* succeeded on an overlapping list.
InterleavedCallsOneRolledBack ==
  \E a, b \in Owners :
    /\ multi[a].pc = "done"
    /\ multi[b].pc = "done"
    /\ multi[a].success
    /\ ~multi[b].success
    /\ multi[b].released = 1
    /\ Len(multi[a].sortedResources) = 2
    /\ multi[b].acquiredLocks[1] \notin Range(multi[a].sortedResources)
    /\ multi[b].sortedResources[2] \in Range(multi[a].sortedResources)


\* ------------------------------------------------------------------------
\* Status updates leave waiters and customers alone
\* ------------------------------------------------------------------------
\* C40: updateReservationStatus (and cancelReservation through it) changes
\* no waiter and no customer record, whatever it is asked and whether it
\* succeeds or fails; so the waiter of a reservation that has reached
\* COMPLETED, CANCELLED or NO_SHOW still has the reservation's table among
\* its assigned tables and is still BUSY.
UpdateLeavesWaitersAndCustomers ==
  /\ [](\A id \in KnownIds, newStatus \in ReservationStatuses,
           expectedVersion \in PresentableVersions :
          LET r == updateReservationStatus(Stores, timers, id, newStatus,
                                           expectedVersion)
          IN /\ r.stores.waiters = waiters
             /\ r.stores.customers = customers)
  /\ [](\A i \in 1..Len(reservations) :
          (reservations[i].status \in {"COMPLETED", "CANCELLED", "NO_SHOW"}
             /\ reservations[i].waiterId # Undefined) =>
            /\ reservations[i].tableId \in
                 Range(waiters[reservations[i].waiterId].assignedTables)
            /\ waiters[reservations[i].waiterId].status = "BUSY")
  /\ [][ret'.op = "updateReservationStatus" =>
          waiters' = waiters /\ customers' = customers]_vars

\* A seated walk-in was completed: its table is being cleaned and its
\* waiter still carries the table and is BUSY.
WaiterKeepsTableOfCompletedParty ==
  /\ ret.op = "updateReservationStatus"
  /\ ret.code = ""
  /\ \E i \in 1..Len(reservations) :
       /\ reservations[i].status = "COMPLETED"
       /\ reservations[i].waiterId # Undefined
       /\ tables[reservations[i].tableId].status = "CLEANING"
       /\ reservations[i].tableId \in
            Range(waiters[reservations[i].waiterId].assignedTables)
       /\ waiters[reservations[i].waiterId].status = "BUSY"

====
